---------------------------- MODULE Spec2Model ----------------------------
(***************************************************************************)
(* A model of the path-planning core of CuraEngine:                        *)
(*   - WallToolPaths (generate, computeInnerContour, getInnerContour,      *)
(*     stitchContours),                                                    *)
(*   - the print operation tree (PrintOperationSequence and its users),    *)
(*   - the travel move insertion and the emission of a layer plan.         *)
(* Every subsystem has its own specification over its own variables; the   *)
(* variables of the other subsystems stay at their idle value.             *)
(***************************************************************************)
EXTENDS Integers, Sequences, FiniteSets, TLC

VARIABLES
    \* ---- WallToolPaths::stitchContours (one run, step by step)
    input,            \* the lines of `input`, in iteration order; a line is its junctions' points
    stitch_distance,  \* parameter stitch_distance
    processed_lines,  \* std::unordered_set processed_lines (lines by their index in input)
    output,           \* Polygons& output: a sequence of polygons, each a sequence of points
    appended,         \* per output polygon, the lines appended to it: <<line, reversed>>
    nearest,          \* const ExtrusionLine* nearest (0 is nullptr)
    nearest_reverse,  \* bool nearest_reverse
    line_idx,         \* position of the outer for loops in input
    chain_passes,     \* passes of the while (nearest) loop made so far
    spc,              \* where the run is: "idle", "outer", "chain", "done"
    \* ---- WallToolPaths (object state)
    outline,              \* member outline
    inset_count,          \* member inset_count
    bead_width_0,         \* member bead_width_0
    prepared_area,        \* sign of prepared_outline.area() of this outline
    toolpaths,            \* member toolpaths
    inner_contour,        \* member inner_contour
    toolpaths_generated,  \* member toolpaths_generated
    contour_paths,        \* computeInnerContour's local contour_paths, as last computed
    actual_toolpaths,     \* computeInnerContour's local actual_toolpaths, as last computed
    emitted_paths,        \* what generateToolpaths put in toolpaths in the last generate()
    trace,                \* the stages generate() ran, in order
    wpc,                  \* "idle", "ready", "fault" (the process died of a division by zero)
    returned,             \* what the last getter returned (a record), or NoCall
    \* ---- the print operation tree (ownership)
    operations_,  \* member operations_ of every PrintOperationSequence
    parent_,      \* member parent_ of every PrintOperation (Null: no parent)
    last_op,      \* the last call made on a sequence
    undo,         \* an appendOperation of a parentless node and the removeOperation after it
    \* ---- an ExtruderPlan under the travel move insertion
    extruder_plan,  \* the children of the ExtruderPlan, in order
    travel_speed,   \* member travel_speed_
    original,       \* the children applyProcessors found
    ppc,            \* "idle", "planning", "processed"
    \* ---- a DirectTravelMoveGenerator
    route_call,     \* the last call of generateTravelRoute, with its result
    \* ---- a LayerPlan and the exporter it is written to
    layer_plan,     \* the LayerPlan: its index, its z and its ExtruderPlans with their move sets
    exported,       \* the calls the exporter received, in order
    xpc,             \* "idle", "planning", "written"
    \* ---- the layer plan buffer between the workers and the emission thread
    layers_started,  \* the layers a worker was given
    plans_building,  \* the layers whose LayerPlan a worker is building
    plan_buffer,  \* the completed LayerPlans waiting in the buffer
    next_layer,  \* the index of the layer the buffer hands over next
    pending_calls,  \* the exporter calls the emission thread still has to make for the plan it writes
    in_exporter,  \* the threads inside a call of the exporter
    export_log,  \* the calls the exporter completed, in order
    \* ---- an ExtruderPlan under back pressure compensation
    paths_,  \* member paths_: the paths of the ExtruderPlan
    factors_before,  \* speed_back_pressure_factor of every path before the last compensation
    last_ratio,  \* back_pressure_compensation of the last call, or NoRatio
    bpc,  \* "idle", "planning", "compensated"
    \* ---- the line width an ExtrusionMove is written with
    written_feature,  \* the FeatureExtrusion of the move: flow, width factor and config
    line_width_ratio_,  \* member line_width_ratio_ of the ExtrusionMove
    line_width,  \* the line width given to writeExtrusion, or NoLineWidth
    lwpc,  \* "idle", "planned", "written"
    \* ---- a MultiExporter and its child exporters
    exporters_,  \* member exporters_: the registered exporters, in registration order
    last_call,  \* the last call made on the MultiExporter, or NoCall
    last_fanout,  \* the calls the children received for it, in order, each with its outcome
    registered_at_call,  \* the list of exporters when the last call was made
    \* ---- the feature extrusions of a plan under the ordering pass
    feature_extrusions,  \* the feature extrusions given to the pass, in their current order
    constraints,  \* the ordering constraints the generators appended
    ordered_extrusions,  \* the feature extrusions after the pass
    opc,  \* "idle", "constraining", "ordered"
    \* ---- a sequence searched with findOperation and the find position functions
    search_tree,  \* the operations below the sequence: the path of each from the sequence, and what it is
    search_args,  \* the arguments of the last search, or NoSearch
    found_operation,  \* the path of the operation the search returned, or NotFound
    found_positions,  \* the results of findStartPosition and findEndPosition, or NoSearch
    fpc,  \* "idle", "building", "searched", "positioned"
    \* ---- a tree of sequences walked by applyProcessorToOperationsRecursively
    node_operations,  \* operations_ of the receiver and of the sequence below it
    node_parent,  \* the parent back-reference of every operation
    child_type,  \* template argument ChildType of the last walk, or Null
    process_calls,  \* the operations given to processor.process by the last walk, in order
    apc,  \* "idle", "building", "processed"
    \* ---- a path given to the smoothing action
    rng,  \* the path given to smooth: the coordinate of each point, all on one axis
    max_resolution,  \* argument max_resolution
    fluid_angle,  \* argument fluid_angle, in units of 15 degrees
    smoothed,  \* the path returned
    windows_log,  \* what the loop did in each window, in order
    mpc,  \* "idle", "called", "returned"
    \* ---- the nozzle temperature inserts of an ExtruderPlan
    inserts_,  \* the queue of NozzleTempInserts not written yet
    gcode_inserts,  \* the inserts written to the gcode so far, in the order of writing
    inserted,  \* the number of insertCommand calls made
    insert_call  \* the last call made on the plan, with its arguments

stitchVars == <<input, stitch_distance, processed_lines, output, appended, nearest,
                nearest_reverse, line_idx, chain_passes, spc>>
wallVars == <<outline, inset_count, bead_width_0, prepared_area, toolpaths, inner_contour,
              toolpaths_generated, contour_paths, actual_toolpaths, emitted_paths, trace,
              wpc, returned>>
treeVars == <<operations_, parent_, last_op, undo>>
travelVars == <<extruder_plan, travel_speed, original, ppc>>
routeVars == <<route_call>>
writeVars == <<layer_plan, exported, xpc>>
bufferVars == <<layers_started, plans_building, plan_buffer, next_layer, pending_calls,
                in_exporter, export_log>>
pressureVars == <<paths_, factors_before, last_ratio, bpc>>
widthVars == <<written_feature, line_width_ratio_, line_width, lwpc>>
multiVars == <<exporters_, last_call, last_fanout, registered_at_call>>
orderVars == <<feature_extrusions, constraints, ordered_extrusions, opc>>
searchVars == <<search_tree, search_args, found_operation, found_positions, fpc>>
processVars == <<node_operations, node_parent, child_type, process_calls, apc>>
smoothVars == <<rng, max_resolution, fluid_angle, smoothed, windows_log, mpc>>
insertsVars == <<inserts_, gcode_inserts, inserted, insert_call>>
vars == <<stitchVars, wallVars, treeVars, travelVars, routeVars, writeVars, bufferVars, pressureVars, widthVars, multiVars, orderVars, searchVars, processVars, smoothVars, insertsVars>>

\* what the actions of one subsystem leave alone
exceptStitch == <<wallVars, treeVars, travelVars, routeVars, writeVars, bufferVars, pressureVars, widthVars, multiVars, orderVars, searchVars, processVars, smoothVars, insertsVars>>
exceptWall == <<stitchVars, treeVars, travelVars, routeVars, writeVars, bufferVars, pressureVars, widthVars, multiVars, orderVars, searchVars, processVars, smoothVars, insertsVars>>
exceptTree == <<stitchVars, wallVars, travelVars, routeVars, writeVars, bufferVars, pressureVars, widthVars, multiVars, orderVars, searchVars, processVars, smoothVars, insertsVars>>
exceptTravel == <<stitchVars, wallVars, treeVars, routeVars, writeVars, bufferVars, pressureVars, widthVars, multiVars, orderVars, searchVars, processVars, smoothVars, insertsVars>>
exceptRoute == <<stitchVars, wallVars, treeVars, travelVars, writeVars, bufferVars, pressureVars, widthVars, multiVars, orderVars, searchVars, processVars, smoothVars, insertsVars>>
exceptWrite == <<stitchVars, wallVars, treeVars, travelVars, routeVars, bufferVars, pressureVars, widthVars, multiVars, orderVars, searchVars, processVars, smoothVars, insertsVars>>
exceptBuffer == <<stitchVars, wallVars, treeVars, travelVars, routeVars, writeVars, pressureVars, widthVars, multiVars, orderVars, searchVars, processVars, smoothVars, insertsVars>>
exceptPressure == <<stitchVars, wallVars, treeVars, travelVars, routeVars, writeVars, bufferVars, widthVars, multiVars, orderVars, searchVars, processVars, smoothVars, insertsVars>>
exceptWidth == <<stitchVars, wallVars, treeVars, travelVars, routeVars, writeVars, bufferVars, pressureVars, multiVars, orderVars, searchVars, processVars, smoothVars, insertsVars>>
exceptMulti == <<stitchVars, wallVars, treeVars, travelVars, routeVars, writeVars, bufferVars, pressureVars, widthVars, orderVars, searchVars, processVars, smoothVars, insertsVars>>
exceptOrder == <<stitchVars, wallVars, treeVars, travelVars, routeVars, writeVars, bufferVars, pressureVars, widthVars, multiVars, searchVars, processVars, smoothVars, insertsVars>>
exceptSearch == <<stitchVars, wallVars, treeVars, travelVars, routeVars, writeVars, bufferVars, pressureVars, widthVars, multiVars, orderVars, processVars, smoothVars, insertsVars>>
exceptProcess == <<stitchVars, wallVars, treeVars, travelVars, routeVars, writeVars, bufferVars, pressureVars, widthVars, multiVars, orderVars, searchVars, smoothVars, insertsVars>>
exceptSmooth == <<stitchVars, wallVars, treeVars, travelVars, routeVars, writeVars, bufferVars, pressureVars, widthVars, multiVars, orderVars, searchVars, processVars, insertsVars>>
exceptInserts == <<stitchVars, wallVars, treeVars, travelVars, routeVars, writeVars, bufferVars, pressureVars, widthVars, multiVars, orderVars, searchVars, processVars, smoothVars>>

-----------------------------------------------------------------------------
(* Bounds of the model *)

\* the largest coordinate of a point (points lie on one axis: Point is its X)
MaxCoord == 1
\* the most lines given to stitchContours
MaxLines == 3
\* the largest stitch distance
MaxStitchDistance == 1

Coords == 0..MaxCoord
nullptr == 0
NoCall == [call |-> "none"]

\* std::numeric_limits<coord_t>::max(), as far as the checker's integers go
coord_t_max == 2147483647

RECURSIVE SeqsUpTo(_, _)
\* all sequences over S of length 0..n
SeqsUpTo(S, n) ==
    IF n = 0 THEN {<<>>}
    ELSE LET shorter == SeqsUpTo(S, n - 1)
         IN shorter \cup {Append(s, x) : s \in {t \in shorter : Len(t) = n - 1}, x \in S}

NonEmptySeqsUpTo(S, n) == SeqsUpTo(S, n) \ {<<>>}

RECURSIVE Reverse(_)
Reverse(s) == IF s = <<>> THEN <<>> ELSE Append(Reverse(Tail(s)), Head(s))

RECURSIVE Flatten(_)
\* the concatenation of a sequence of sequences
Flatten(ss) == IF ss = <<>> THEN <<>> ELSE Head(ss) \o Flatten(Tail(ss))

Last(s) == s[Len(s)]

-----------------------------------------------------------------------------
(* WallToolPaths::stitchContours *)

\* vSize2 of the difference of two points
vSize2(p, q) == (p - q) * (p - q)

\* ExtrusionLineStartLocator / ExtrusionLineEndLocator
StartLocator(line) == Head(line)
EndLocator(line) == Last(line)

RECURSIVE getNearbyFrom(_, _, _, _, _)
\* the lines i..Len(lines) whose located point lies within radius of query, in insertion order
getNearbyFrom(lines, ends, query, radius, i) ==
    IF i > Len(lines) THEN <<>>
    ELSE LET p == IF ends THEN EndLocator(lines[i]) ELSE StartLocator(lines[i])
             rest == getNearbyFrom(lines, ends, query, radius, i + 1)
         IN IF vSize2(p, query) <= radius * radius THEN <<i>> \o rest ELSE rest

\* SparsePointGrid::getNearby on line_starts (ends = FALSE) or line_ends (ends = TRUE)
getNearby(lines, ends, query, radius) == getNearbyFrom(lines, ends, query, radius, 1)

RECURSIVE ScanCandidates(_, _, _, _, _, _)
\* one of the two candidate loops: acc is [nearest, nearest_dist2, nearest_reverse]
ScanCandidates(candidates, ends, lines, processed, current_position, acc) ==
    IF candidates = <<>> THEN acc
    ELSE LET candidate == Head(candidates)
             rest == Tail(candidates)
             p == IF ends THEN Last(lines[candidate]) ELSE Head(lines[candidate])
             dist2 == vSize2(p, current_position)
         IN IF candidate \in processed
            THEN ScanCandidates(rest, ends, lines, processed, current_position, acc)
            ELSE IF dist2 < acc.nearest_dist2
                 THEN ScanCandidates(rest, ends, lines, processed, current_position,
                                     [nearest |-> candidate, nearest_dist2 |-> dist2,
                                      nearest_reverse |-> ends])
                 ELSE ScanCandidates(rest, ends, lines, processed, current_position, acc)

\* the position the search for the next line starts from
CurrentPosition(line, reversed) == Last(line)

\* processed_lines.insert(nearest)
MarkProcessedNever(processed, line) == processed
MarkProcessed(processed, line) == processed \cup {line}

\* the two candidate loops the other way round: the ends first, then the starts
FindNearestEndsFirst(lines, processed, distance, current_position, reverse_before) ==
    LET nearby_starts == getNearby(lines, FALSE, current_position, distance)
        nearby_ends == getNearby(lines, TRUE, current_position, distance)
        none == [nearest |-> nullptr, nearest_dist2 |-> coord_t_max,
                 nearest_reverse |-> reverse_before]
        after_ends == ScanCandidates(nearby_ends, TRUE, lines, processed,
                                     current_position, none)
    IN ScanCandidates(nearby_starts, FALSE, lines, processed, current_position, after_ends)

\* "find any nearby lines to attach": the new [nearest, nearest_dist2, nearest_reverse]
FindNearest(lines, processed, distance, current_position, reverse_before) ==
    LET nearby_starts == getNearby(lines, FALSE, current_position, distance)
        nearby_ends == getNearby(lines, TRUE, current_position, distance)
        none == [nearest |-> nullptr, nearest_dist2 |-> coord_t_max,
                 nearest_reverse |-> reverse_before]
        after_starts == ScanCandidates(nearby_starts, FALSE, lines, processed,
                                       current_position, none)
    IN ScanCandidates(nearby_ends, TRUE, lines, processed, current_position, after_starts)

\* the points of a line as the while loop's body adds them to output.back()
AddedPoints(line, reversed) == IF reversed THEN Reverse(line) ELSE line

\* a line has one junction (front = back) or two (a front and a back): the junctions
\* in between only pass through stitchContours
ExtrusionLines == {<<p>> : p \in Coords} \cup {<<p, q>> : p \in Coords, q \in Coords}

StitchInputs == SeqsUpTo(ExtrusionLines, MaxLines)

\* the locals and the output of a run of stitchContours at its start
StitchStart(output_before) ==
    [processed_lines |-> {}, output |-> output_before,
     appended |-> [i \in 1..Len(output_before) |-> <<>>],
     nearest |-> nullptr, nearest_reverse |-> FALSE, line_idx |-> 1, chain_passes |-> 0,
     spc |-> "outer"]

\* one pass of the outer for loops (lines 204-214), up to the while loop
outerStep(lines, st) ==
    IF st.line_idx \in st.processed_lines
    THEN [st EXCEPT !.line_idx = @ + 1]
    ELSE [st EXCEPT !.nearest = st.line_idx,
                    !.nearest_reverse = FALSE,
                    !.output = Append(@, <<>>),
                    !.appended = Append(@, <<>>),
                    !.spc = "chain"]

\* one pass of the while (nearest) loop (lines 215-275); when it ends the loop, the
\* outer loops go on with the next line
chainStep(lines, distance, st) ==
    IF st.nearest \in st.processed_lines
    THEN \* break: looping, this contour is already processed
         [st EXCEPT !.spc = "outer", !.line_idx = @ + 1, !.chain_passes = @ + 1]
    ELSE LET line == lines[st.nearest]
             marked == MarkProcessed(st.processed_lines, st.nearest)
             current_position == CurrentPosition(line, st.nearest_reverse)
             found == FindNearest(lines, marked, distance, current_position,
                                  st.nearest_reverse)
         IN [st EXCEPT
                !.output = [@ EXCEPT ![Len(@)] = @ \o AddedPoints(line, st.nearest_reverse)],
                !.appended = [@ EXCEPT ![Len(@)] =
                                 Append(@, <<st.nearest, st.nearest_reverse>>)],
                !.processed_lines = marked,
                !.nearest = found.nearest,
                !.nearest_reverse = found.nearest_reverse,
                !.spc = IF found.nearest = nullptr THEN "outer" ELSE "chain",
                !.line_idx = IF found.nearest = nullptr THEN @ + 1 ELSE @,
                !.chain_passes = @ + 1]

RECURSIVE stitchRun(_, _, _)
\* the run from st to the return (each state is computed once, then passed on)
stitchRun(lines, distance, st) ==
    IF st.spc = "chain"
    THEN CHOOSE r \in {stitchRun(lines, distance, next) :
                           next \in {chainStep(lines, distance, st)}} : TRUE
    ELSE IF st.line_idx <= Len(lines)
         THEN CHOOSE r \in {stitchRun(lines, distance, next) :
                                next \in {outerStep(lines, st)}} : TRUE
         ELSE [st EXCEPT !.spc = "done"]

\* stitchContours(input, stitch_distance, output): the output afterwards; the lines of
\* input are those of its paths, in order
stitchContours(input_paths, distance, output_before) ==
    stitchRun(Flatten(input_paths), distance, StitchStart(output_before)).output

StitchState ==
    [processed_lines |-> processed_lines, output |-> output, appended |-> appended,
     nearest |-> nearest, nearest_reverse |-> nearest_reverse, line_idx |-> line_idx,
     chain_passes |-> chain_passes,
     spc |-> spc]

StitchBecomes(st) ==
    /\ processed_lines' = st.processed_lines
    /\ output' = st.output
    /\ appended' = st.appended
    /\ nearest' = st.nearest
    /\ nearest_reverse' = st.nearest_reverse
    /\ line_idx' = st.line_idx
    /\ chain_passes' = st.chain_passes
    /\ spc' = st.spc

StitchIs(st) ==
    /\ processed_lines = st.processed_lines
    /\ output = st.output
    /\ appended = st.appended
    /\ nearest = st.nearest
    /\ nearest_reverse = st.nearest_reverse
    /\ line_idx = st.line_idx
    /\ chain_passes = st.chain_passes
    /\ spc = st.spc

StitchIdle ==
    /\ input = <<>>
    /\ stitch_distance = 0
    /\ StitchIs([StitchStart(<<>>) EXCEPT !.spc = "idle"])

\* the call of stitchContours on an empty output, for any input and stitch distance
StitchCalled ==
    /\ input \in StitchInputs
    /\ stitch_distance \in 0..MaxStitchDistance
    /\ StitchIs(StitchStart(<<>>))

OuterStep ==
    /\ spc = "outer"
    /\ line_idx <= Len(input)
    /\ StitchBecomes(outerStep(input, StitchState))
    /\ UNCHANGED <<input, stitch_distance>>
    /\ UNCHANGED exceptStitch

ChainStep ==
    /\ spc = "chain"
    /\ StitchBecomes(chainStep(input, stitch_distance, StitchState))
    /\ UNCHANGED <<input, stitch_distance>>
    /\ UNCHANGED exceptStitch

\* the outer loops are over: stitchContours returns
StitchReturn ==
    /\ spc = "outer"
    /\ line_idx > Len(input)
    /\ spc' = "done"
    /\ UNCHANGED <<input, stitch_distance, processed_lines, output, appended, nearest,
                   nearest_reverse, line_idx, chain_passes>>
    /\ UNCHANGED exceptStitch

-----------------------------------------------------------------------------
(* WallToolPaths: generate, getToolPaths, computeInnerContour, getInnerContour *)

\* the most per-inset groups the trapezoidation emits
MaxGroups == 2
\* the largest inset_count
MaxInsetCount == 1

\* outlines are told apart by name only: their geometry is the geometry library's
Outlines == {"outline_a", "outline_b"}
\* the sign of prepared_outline.area()
AreaSigns == {-1, 0, 1}
\* junction widths: none (a contour) or one unit
Widths == {0, 1}
\* bead_width_0 (the stitch distance is half of it)
BeadWidths == {2}

\* an ExtrusionLine of the trapezoidation: two junctions [p, w], from 0 to 1
WallLines ==
    {<<[p |-> 0, w |-> w1], [p |-> 1, w |-> w2]>> : w1 \in Widths, w2 \in Widths}
\* a VariableWidthLines: the lines of one inset
WallGroups == SeqsUpTo(WallLines, 2)
\* what SkeletalTrapezoidation::generateToolpaths can emit
EmittedPaths == SeqsUpTo(WallGroups, MaxGroups)

\* prepared_outline.area() > 0
AreaNotNegative(area) == area >= 0
AreaPositive(area) == area > 0

\* the junctions of all lines of a path, in the order of the two for loops
JunctionsOf(path) == Flatten(path)

\* the lambda of std::partition_copy: TRUE is an actual toolpath
IsToolpathByLastJunction(path) ==
    IF JunctionsOf(path) # <<>> THEN Last(JunctionsOf(path)).w # 0 ELSE TRUE
IsToolpath(path) ==
    IF JunctionsOf(path) # <<>> THEN Head(JunctionsOf(path)).w # 0 ELSE TRUE

\* removeEmptyToolPaths
removeEmptyToolPaths(paths) == SelectSeq(paths, LAMBDA lines : lines # <<>>)

\* the points of the lines of contour paths, as stitchContours reads them
PointsOf(paths) == [i \in 1..Len(paths) |->
                       [j \in 1..Len(paths[i]) |->
                           [k \in 1..Len(paths[i][j]) |-> paths[i][j][k].p]]]

\* Polygons::unionPolygons(Polygons(), pftEvenOdd) of the geometry library, as far as
\* this model follows it: the polygons without points are dropped
unionPolygons(polygons) == SelectSeq(polygons, LAMBDA poly : poly # <<>>)

\* the object's members, and what the model records of a run
WallState ==
    [toolpaths |-> toolpaths, inner_contour |-> inner_contour,
     toolpaths_generated |-> toolpaths_generated, contour_paths |-> contour_paths,
     actual_toolpaths |-> actual_toolpaths,
     emitted_paths |-> emitted_paths, trace |-> trace, wpc |-> wpc]

\* computeInnerContour (lines 116-151). divides says whether the division by
\* inset_count == 0 of line 122 traps
computeInnerContour(w, insets, bead_width, divides) ==
    IF insets = 0 /\ ~divides
    THEN [w EXCEPT !.wpc = "fault", !.trace = Append(@, "fault")]
    ELSE LET actual == SelectSeq(w.toolpaths, IsToolpath)
             contour == SelectSeq(w.toolpaths, LAMBDA path : ~IsToolpath(path))
             minimum_line_width == bead_width \div 2
             stitched == stitchContours(PointsOf(contour), minimum_line_width, <<>>)
         IN [w EXCEPT !.toolpaths = actual,
                      !.actual_toolpaths = actual,
                      !.contour_paths = contour,
                      !.inner_contour = unionPolygons(stitched),
                      !.trace = Append(@, "computeInnerContour")]

\* generate (lines 76-105), for the paths the trapezoidation emits
generate(w, area, insets, bead_width, emitted, divides) ==
    LET prepared == [w EXCEPT !.trace = Append(@, "prepare")]
        walled ==
            IF AreaPositive(area)
            THEN computeInnerContour(
                     [prepared EXCEPT !.toolpaths = @ \o emitted,
                                      !.emitted_paths = emitted,
                                      !.trace = @ \o <<"makeStrategy", "generateToolpaths">>],
                     insets, bead_width, divides)
            ELSE prepared
    IN IF walled.wpc = "fault" THEN walled
       ELSE [walled EXCEPT !.toolpaths = removeEmptyToolPaths(@),
                           !.toolpaths_generated = TRUE,
                           !.trace = Append(@, "removeEmptyToolPaths")]

\* getInnerContour (lines 153-164): the state afterwards and the value returned
getInnerContour(w, insets, generated, out) ==
    IF ~w.toolpaths_generated /\ insets > 0
    THEN [state |-> generated, value |-> generated.inner_contour]
    ELSE IF insets = 0
         THEN [state |-> w, value |-> out]
         ELSE [state |-> w, value |-> w.inner_contour]

WallBecomes(w) ==
    /\ toolpaths' = w.toolpaths
    /\ inner_contour' = w.inner_contour
    /\ toolpaths_generated' = w.toolpaths_generated
    /\ contour_paths' = w.contour_paths
    /\ actual_toolpaths' = w.actual_toolpaths
    /\ emitted_paths' = w.emitted_paths
    /\ trace' = w.trace
    /\ wpc' = w.wpc

WallIdle ==
    /\ outline = "none"
    /\ inset_count = 0
    /\ bead_width_0 = 0
    /\ prepared_area = 0
    /\ toolpaths = <<>>
    /\ inner_contour = <<>>
    /\ toolpaths_generated = FALSE
    /\ contour_paths = <<>>
    /\ actual_toolpaths = <<>>
    /\ emitted_paths = <<>>
    /\ trace = <<>>
    /\ wpc = "idle"
    /\ returned = NoCall

\* the object after its constructor (lines 44-74)
WallConstructed ==
    /\ outline \in Outlines
    /\ inset_count \in 0..MaxInsetCount
    /\ bead_width_0 \in BeadWidths
    /\ prepared_area \in AreaSigns
    /\ toolpaths = <<>>
    /\ inner_contour = <<>>
    /\ toolpaths_generated = FALSE
    /\ contour_paths = <<>>
    /\ actual_toolpaths = <<>>
    /\ emitted_paths = <<>>
    /\ trace = <<>>
    /\ wpc = "ready"
    /\ returned = NoCall

\* what generate() can come to from the present state: one outcome for each emission
\* of the trapezoidation (when it runs) and each outcome of the division by zero
\* (when it is made)
GenerateOutcomes ==
    {generate(WallState, prepared_area, inset_count, bead_width_0, emitted, divides) :
        emitted \in (IF AreaPositive(prepared_area) THEN EmittedPaths ELSE {<<>>}),
        divides \in (IF AreaPositive(prepared_area) /\ inset_count = 0
                     THEN BOOLEAN ELSE {TRUE})}

WallReturns(call, value) ==
    returned' = IF wpc' = "fault" THEN NoCall ELSE [call |-> call, value |-> value]

\* a first call of generate()
Generate ==
    /\ wpc = "ready"
    /\ ~toolpaths_generated
    /\ \E after \in GenerateOutcomes :
          /\ WallBecomes(after)
          /\ WallReturns("generate", after.toolpaths)
    /\ UNCHANGED <<outline, inset_count, bead_width_0, prepared_area>>
    /\ UNCHANGED exceptWall

\* getToolPaths (lines 107-114)
GetToolPaths ==
    /\ wpc = "ready"
    /\ \E after \in (IF ~toolpaths_generated THEN GenerateOutcomes ELSE {WallState}) :
          /\ WallBecomes(after)
          /\ WallReturns("getToolPaths", after.toolpaths)
    /\ UNCHANGED <<outline, inset_count, bead_width_0, prepared_area>>
    /\ UNCHANGED exceptWall

GetInnerContour ==
    /\ wpc = "ready"
    /\ \E generated \in (IF ~toolpaths_generated /\ inset_count > 0
                         THEN GenerateOutcomes ELSE {WallState}) :
          LET got == getInnerContour(WallState, inset_count, generated, outline)
          IN /\ WallBecomes(got.state)
             /\ WallReturns("getInnerContour", got.value)
    /\ UNCHANGED <<outline, inset_count, bead_width_0, prepared_area>>
    /\ UNCHANGED exceptWall

-----------------------------------------------------------------------------
(* The print operation tree: who owns whom *)

\* the most children a sequence is given
MaxChildren == 3

\* the sequences (ExtruderPlan objects) and the operations appended to them
\* (FeatureExtrusion objects)
Sequences_ == {"s1", "s2"}
Operations == {"c1", "c2"}
Null == "null"
NoOp == [op |-> "none", s |-> Null, c |-> Null]
NoUndo == [stage |-> "none"]

Contains(list, x) == \E i \in 1..Len(list) : list[i] = x
Count(list, x) == Cardinality({i \in 1..Len(list) : list[i] = x})

\* the list without its first x (std::find and erase)
RECURSIVE EraseFirst(_, _)
EraseFirst(list, x) ==
    IF list = <<>> THEN <<>>
    ELSE IF Head(list) = x THEN Tail(list)
    ELSE <<Head(list)>> \o EraseFirst(Tail(list), x)

\* PrintOperationSequence::appendOperation (spec 4.3, append_child): rejects a child
\* that has a parent; otherwise the child is pushed back and its parent is set
appendOperation(ops, par, s, c) ==
    IF par[c] # Null
    THEN [operations_ |-> ops, parent_ |-> par]
    ELSE [operations_ |-> [ops EXCEPT ![s] = Append(@, c)],
          parent_ |-> [par EXCEPT ![c] = s]]

\* PrintOperationSequence::removeOperation (spec 4.3, remove_child): detaches the child
\* found in the list and clears its back-reference
removeOperation(ops, par, s, c) ==
    IF Contains(ops[s], c)
    THEN [operations_ |-> [ops EXCEPT ![s] = EraseFirst(@, c)],
          parent_ |-> [par EXCEPT ![c] = Null]]
    ELSE [operations_ |-> ops, parent_ |-> par]

\* setOperations without its first loop: the operations taken out keep their parent
setOperationsKeepingParents(ops, par, s, operations) ==
    [operations_ |-> [ops EXCEPT ![s] = operations],
     parent_ |-> [c \in DOMAIN par |->
                     IF Contains(operations, c) /\ ~Contains(ops[s], c) THEN s
                     ELSE par[c]]]

\* PrintOperationSequence::setOperations (PrintOperationSequence.h lines 132-156)
setOperations(ops, par, s, operations) ==
    [operations_ |-> [ops EXCEPT ![s] = operations],
     parent_ |-> [c \in DOMAIN par |->
                     IF Contains(ops[s], c) /\ ~Contains(operations, c) THEN Null
                     ELSE IF Contains(operations, c) /\ ~Contains(ops[s], c) THEN s
                     ELSE par[c]]]

TreeBecomes(t) ==
    /\ operations_' = t.operations_
    /\ parent_' = t.parent_

TreeIdle ==
    /\ operations_ = <<>>
    /\ parent_ = <<>>
    /\ last_op = NoOp
    /\ undo = NoUndo

\* empty sequences and operations without a parent, as their constructors leave them
TreeConstructed ==
    /\ operations_ = [s \in Sequences_ |-> <<>>]
    /\ parent_ = [c \in Operations |-> Null]
    /\ last_op = NoOp
    /\ undo = NoUndo

\* ExtruderPlan::appendFeatureExtrusion (print_operation/ExtruderPlan.cpp lines 27-33);
\* empty is feature_extrusion->empty(). called says whether appendOperation was called
appendFeatureExtrusionPushingBack(ops, par, s, c, check_non_empty, empty) ==
    IF ~check_non_empty \/ ~empty
    THEN [operations_ |-> [ops EXCEPT ![s] = Append(@, c)],
          parent_ |-> [par EXCEPT ![c] = s], called |-> TRUE]
    ELSE [operations_ |-> ops, parent_ |-> par, called |-> FALSE]
appendFeatureExtrusion(ops, par, s, c, check_non_empty, empty) ==
    IF ~check_non_empty \/ ~empty
    THEN [operations_ |-> appendOperation(ops, par, s, c).operations_,
          parent_ |-> appendOperation(ops, par, s, c).parent_, called |-> TRUE]
    ELSE [operations_ |-> ops, parent_ |-> par, called |-> FALSE]

AppendFeatureExtrusion ==
    \E s \in Sequences_, c \in Operations, check_non_empty \in BOOLEAN, empty \in BOOLEAN :
        LET after == appendFeatureExtrusion(operations_, parent_, s, c,
                                            check_non_empty, empty)
        IN /\ Len(operations_[s]) < MaxChildren
           /\ TreeBecomes(after)
           /\ last_op' = [op |-> IF after.called THEN "appendOperation"
                                 ELSE "appendFeatureExtrusion",
                          s |-> s, c |-> c]
           /\ undo' = IF after.called /\ parent_[c] = Null
                      THEN [stage |-> "appended", s |-> s, c |-> c,
                            before |-> operations_[s]]
                      ELSE NoUndo
           /\ UNCHANGED exceptTree

RemoveOperation ==
    \E s \in Sequences_, c \in Operations :
        /\ TreeBecomes(removeOperation(operations_, parent_, s, c))
        /\ last_op' = [op |-> "removeOperation", s |-> s, c |-> c]
        /\ undo' = IF undo.stage = "appended" /\ undo.s = s /\ undo.c = c
                   THEN [undo EXCEPT !.stage = "removed"]
                   ELSE NoUndo
        /\ UNCHANGED exceptTree

SetOperations ==
    \E s \in Sequences_, operations \in SeqsUpTo(Operations, MaxChildren) :
        /\ TreeBecomes(setOperations(operations_, parent_, s, operations))
        /\ last_op' = [op |-> "setOperations", s |-> s, c |-> Null,
                        operations |-> operations,
                        dropped |-> {c \in Operations : /\ Contains(operations_[s], c)
                                                        /\ ~Contains(operations, c)},
                        kept |-> {c \in Operations : /\ Contains(operations_[s], c)
                                                     /\ Contains(operations, c)},
                        owned |-> \A i \in 1..Len(operations_[s]) :
                                     parent_[operations_[s][i]] = s]
        /\ undo' = NoUndo
        /\ UNCHANGED exceptTree

-----------------------------------------------------------------------------
(* Move sets, the travel move insertion and the emission of a layer plan *)

\* the largest coordinate of a position (positions lie on one axis: Point3LL is its X,
\* its Z is kept apart where the layer supplies it)
MaxPosition == 1
\* the most FeatureExtrusions appended to the ExtruderPlan before the pass
MaxFeatures == 3

Positions == 0..MaxPosition
Speeds == {1, 2}
NoPosition == "none"

ExtrusionMove(position) == [kind |-> "ExtrusionMove", position |-> position]
TravelMove(position) == [kind |-> "TravelMove", position |-> position]

\* FeatureExtrusion::FeatureExtrusion(config) (path_planning/FeatureExtrusion.cpp 11-14)
FeatureExtrusion(config) ==
    [kind |-> "FeatureExtrusion", type |-> config.type, speed |-> config.speed,
     moves |-> <<>>]

\* ExtruderMoveSet::appendExtruderMove: the move is pushed back
appendExtruderMove(move_set, move) == [move_set EXCEPT !.moves = Append(@, move)]

\* FeatureExtrusion::addExtrusionMove (path_planning/FeatureExtrusion.cpp 16-20)
addExtrusionMove(feature_extrusion, position) ==
    appendExtruderMove(feature_extrusion, ExtrusionMove(position))

\* TravelRoute::TravelRoute(feature, speed) and TravelRoute::appendTravelMove
TravelRoute(feature, speed) ==
    [kind |-> "TravelRoute", type |-> feature, speed |-> speed, moves |-> <<>>]
appendTravelMove(route, travel_move) == appendExtruderMove(route, travel_move)

\* DirectTravelMoveGenerator::generateTravelRoute (lines 17-22)
generateTravelRouteCombing(start, end, speed) ==
    appendTravelMove(TravelRoute("MoveCombing", speed), TravelMove(end))
generateTravelRoute(start, end, speed) ==
    appendTravelMove(TravelRoute("MoveRetraction", speed), TravelMove(end))

\* PrintOperationSequence::findStartPosition / findEndPosition of a move set (spec 4.3):
\* the first and the last position of its leaves
findStartPosition(move_set) ==
    IF move_set.moves = <<>> THEN NoPosition ELSE Head(move_set.moves).position
findEndPosition(move_set) ==
    IF move_set.moves = <<>> THEN NoPosition ELSE Last(move_set.moves).position

\* AddTravelMovesProcessor::process (spec 4.4): between each pair of children whose end
\* position differs from the next one's start position, a route of the generator
RECURSIVE addTravelMoves(_, _)
addTravelMoves(operations, speed) ==
    IF Len(operations) <= 1 THEN operations
    ELSE LET a == operations[1]
             b == operations[2]
         IN IF findEndPosition(a) # findStartPosition(b)
            THEN <<a, generateTravelRoute(findEndPosition(a), findStartPosition(b), speed)>>
                     \o addTravelMoves(Tail(operations), speed)
            ELSE <<a>> \o addTravelMoves(Tail(operations), speed)

\* PrintOperationSequence::applyProcessors (spec 4.3): every child applies its own
\* processors; a FeatureExtrusion has none
applyChildrenProcessors(operations) ==
    [i \in 1..Len(operations) |-> operations[i]]

\* ExtruderPlan::applyProcessors (path_planning/ExtruderPlan.cpp lines 92-98)
applyProcessorsWithoutTravel(operations, speed) == applyChildrenProcessors(operations)
applyProcessors(operations, speed) ==
    addTravelMoves(applyChildrenProcessors(operations), speed)

\* the configurations of the features of the model
FeatureConfigs == {[type |-> "OuterWall", speed |-> 1]}

\* a feature with its moves added one after the other
RECURSIVE FeatureOf(_, _)
FeatureOf(config, positions) ==
    IF positions = <<>> THEN FeatureExtrusion(config)
    ELSE addExtrusionMove(FeatureOf(config, SubSeq(positions, 1, Len(positions) - 1)),
                          Last(positions))

\* the features appended: one or two extrusion moves each
FeaturePositions ==
    {<<p>> : p \in Positions} \cup {<<p, q>> : p \in Positions, q \in Positions}
Features == {FeatureOf(config, positions) :
                config \in FeatureConfigs, positions \in FeaturePositions}

TravelIdle ==
    /\ extruder_plan = <<>>
    /\ travel_speed = 0
    /\ original = <<>>
    /\ ppc = "idle"

\* ExtruderPlan::ExtruderPlan (path_planning/ExtruderPlan.cpp lines 11-29)
ExtruderPlanConstructed ==
    /\ extruder_plan = <<>>
    /\ travel_speed \in Speeds
    /\ original = <<>>
    /\ ppc = "planning"

\* ExtruderPlan::appendFeatureExtrusion of a feature that has moves
PlanFeatureExtrusion ==
    /\ ppc = "planning"
    /\ Len(extruder_plan) < MaxFeatures
    /\ \E feature_extrusion \in Features, check_non_empty \in BOOLEAN :
          extruder_plan' = IF ~check_non_empty \/ feature_extrusion.moves # <<>>
                           THEN Append(extruder_plan, feature_extrusion)
                           ELSE extruder_plan
    /\ UNCHANGED <<travel_speed, original, ppc>>
    /\ UNCHANGED exceptTravel

ApplyProcessors ==
    /\ ppc = "planning"
    /\ extruder_plan' = applyProcessors(extruder_plan, travel_speed)
    /\ original' = extruder_plan
    /\ ppc' = "processed"
    /\ UNCHANGED travel_speed
    /\ UNCHANGED exceptTravel

\* the points of the calls made on a generator: Point3LL
Points3 == {[x |-> x, y |-> y, z |-> z] : x \in Positions, y \in Positions, z \in Positions}

RouteIdle == route_call = [call |-> "idle"]

\* DirectTravelMoveGenerator::DirectTravelMoveGenerator (lines 12-15): nothing called yet
GeneratorConstructed == route_call = NoCall

\* a call of generateTravelRoute on the generator
GenerateTravelRoute ==
    /\ \E start \in Points3, end \in Points3, speed \in Speeds :
          route_call' = [call |-> "generateTravelRoute", start |-> start, end |-> end,
                         speed |-> speed,
                         route |-> generateTravelRoute(start, end, speed)]
    /\ UNCHANGED exceptRoute

-----------------------------------------------------------------------------
(* Writing a LayerPlan to a PathExporter *)

\* the most leaf moves of a LayerPlan
MaxLeaves == 3
\* the most ExtruderPlans of a LayerPlan, and the most move sets of an ExtruderPlan
MaxExtruderPlans == 2
MaxMoveSets == 2

NoLayerPlan == [layer_index |-> -1, z |-> 0, extruder_plans |-> <<>>]

\* the layers of the model: index, z and thickness
Layers == {[layer_index |-> 0, z |-> 1, layer_thickness |-> 1],
           [layer_index |-> 1, z |-> 2, layer_thickness |-> 1]}

\* the move sets appended to an ExtruderPlan: a FeatureExtrusion or a TravelRoute, of
\* one or two moves, each an ExtrusionMove or a TravelMove. The n-th leaf appended
\* to the LayerPlan lies at position n, so that every leaf is known by its position
MoveKinds == {"ExtrusionMove", "TravelMove"}
MoveAt(kind, position) ==
    IF kind = "ExtrusionMove" THEN ExtrusionMove(position) ELSE TravelMove(position)
EmptyMoveSets ==
    {FeatureExtrusion(config) : config \in FeatureConfigs}
        \cup {TravelRoute("MoveRetraction", speed) : speed \in {2}}
RECURSIVE MoveSetOf(_, _)
MoveSetOf(move_set, moves) ==
    IF moves = <<>> THEN move_set
    ELSE appendExtruderMove(MoveSetOf(move_set, SubSeq(moves, 1, Len(moves) - 1)),
                            Last(moves))
MoveSetsAfter(leaves) ==
    {MoveSetOf(move_set, [i \in 1..Len(kinds) |-> MoveAt(kinds[i], leaves + i)]) :
        move_set \in EmptyMoveSets, kinds \in NonEmptySeqsUpTo(MoveKinds, 2)}

\* the leaf moves of a LayerPlan in order (children first to last, depth first), each
\* with the move set it is in
LeavesOfMoveSet(move_set) ==
    [i \in 1..Len(move_set.moves) |-> [move |-> move_set.moves[i], move_set |-> move_set]]
LeavesOfPlan(move_sets) ==
    Flatten([i \in 1..Len(move_sets) |-> LeavesOfMoveSet(move_sets[i])])
LeavesOf(plan) ==
    Flatten([i \in 1..Len(plan.extruder_plans) |-> LeavesOfPlan(plan.extruder_plans[i])])

\* ExtruderMove::getAbsolutePosition: the z comes from the LayerPlan
getAbsolutePosition(move, plan) == [x |-> move.position, z |-> plan.z]

\* ExtrusionMove::write (path_planning/ExtrusionMove.cpp lines 20-37)
writeExtrusionMoveUnchecked(move, plan, extruder_move_set) ==
    <<[call |-> "writeExtrusion", layer_index |-> plan.layer_index,
       position |-> getAbsolutePosition(move, plan),
       velocity |-> extruder_move_set.speed,
       print_feature_type |-> extruder_move_set.type]>>
writeExtrusionMoveInverted(move, plan, extruder_move_set) ==
    IF extruder_move_set.kind = "FeatureExtrusion"
    THEN <<>>
    ELSE <<[call |-> "writeExtrusion", layer_index |-> plan.layer_index,
            position |-> getAbsolutePosition(move, plan),
            velocity |-> extruder_move_set.speed,
            print_feature_type |-> extruder_move_set.type]>>
writeExtrusionMove(move, plan, extruder_move_set) ==
    IF extruder_move_set.kind # "FeatureExtrusion"
    THEN <<>>
    ELSE <<[call |-> "writeExtrusion", layer_index |-> plan.layer_index,
            position |-> getAbsolutePosition(move, plan),
            velocity |-> extruder_move_set.speed,
            print_feature_type |-> extruder_move_set.type]>>

\* TravelMove::write (spec 4.3, 4.5): one write_travel call
writeTravelMove(move, plan, extruder_move_set) ==
    <<[call |-> "writeTravelMove", layer_index |-> plan.layer_index,
       position |-> getAbsolutePosition(move, plan),
       velocity |-> extruder_move_set.speed,
       print_feature_type |-> extruder_move_set.type]>>

writeMove(move, plan, extruder_move_set) ==
    IF move.kind = "ExtrusionMove"
    THEN writeExtrusionMove(move, plan, extruder_move_set)
    ELSE writeTravelMove(move, plan, extruder_move_set)

\* PrintOperationSequence::write (spec 4.3): the children are written first to last
writeMoveSet(move_set, plan) ==
    Flatten([i \in 1..Len(move_set.moves) |-> writeMove(move_set.moves[i], plan, move_set)])
writeExtruderPlan(move_sets, plan) ==
    Flatten([i \in 1..Len(move_sets) |-> writeMoveSet(move_sets[i], plan)])

\* LayerPlan::write (spec 4.5): the layer start, the children, the layer end
writeLayerPlan(plan) ==
    <<[call |-> "writeLayerStart", layer_index |-> plan.layer_index]>>
        \o Flatten([i \in 1..Len(plan.extruder_plans) |->
                       writeExtruderPlan(plan.extruder_plans[i], plan)])
        \o <<[call |-> "writeLayerEnd", layer_index |-> plan.layer_index,
              z |-> plan.z, layer_thickness |-> plan.layer_thickness]>>

WriteIdle ==
    /\ layer_plan = NoLayerPlan
    /\ exported = <<>>
    /\ xpc = "idle"

\* a LayerPlan without children, and an exporter that received nothing
LayerPlanConstructed ==
    /\ layer_plan \in {[layer_index |-> layer.layer_index, z |-> layer.z,
                        layer_thickness |-> layer.layer_thickness,
                        extruder_plans |-> <<>>] : layer \in Layers}
    /\ exported = <<>>
    /\ xpc = "planning"

\* LayerPlan: an ExtruderPlan is appended
AppendExtruderPlan ==
    /\ xpc = "planning"
    /\ Len(layer_plan.extruder_plans) < MaxExtruderPlans
    /\ layer_plan' = [layer_plan EXCEPT !.extruder_plans = Append(@, <<>>)]
    /\ UNCHANGED <<exported, xpc>>
    /\ UNCHANGED exceptWrite

\* a move set is appended to the last ExtruderPlan
AppendMoveSet ==
    /\ xpc = "planning"
    /\ layer_plan.extruder_plans # <<>>
    /\ Len(Last(layer_plan.extruder_plans)) < MaxMoveSets
    /\ \E move_set \in MoveSetsAfter(Len(LeavesOf(layer_plan))) :
          /\ Len(LeavesOf(layer_plan)) + Len(move_set.moves) <= MaxLeaves
          /\ layer_plan' = [layer_plan EXCEPT
                               !.extruder_plans[Len(layer_plan.extruder_plans)] =
                                   Append(@, move_set)]
    /\ UNCHANGED <<exported, xpc>>
    /\ UNCHANGED exceptWrite

\* LayerPlan::write(exporter)
WriteLayerPlan ==
    /\ xpc = "planning"
    /\ exported' = exported \o writeLayerPlan(layer_plan)
    /\ xpc' = "written"
    /\ UNCHANGED layer_plan
    /\ UNCHANGED exceptWrite

-----------------------------------------------------------------------------
(* The layer plan buffer: workers build LayerPlans, one thread writes them (spec 5) *)

\* the number of layers of the print, and of workers of the pool
MaxLayerCount == 3
MaxWorkers == 2

LayerIndices == 0..(MaxLayerCount - 1)

\* the LayerPlans a worker may complete for a layer: without children, or with one
\* FeatureExtrusion of one move
BuiltPlans(layer_index) ==
    {[layer_index |-> layer_index, z |-> layer_index + 1, layer_thickness |-> 1,
      extruder_plans |-> extruder_plans] :
        extruder_plans \in {<<>>} \cup {<<<<feature>>>> :
            feature \in {FeatureOf(config, <<1>>) : config \in FeatureConfigs}}}

\* the buffered plans the buffer may hand to the exporter now: the one of the next
\* layer index, once it is there
AnyBufferedPlan(buffer, next) == buffer
ReadyPlans(buffer, next) == {plan \in buffer : plan.layer_index = next}

BufferIdle ==
    /\ layers_started = {}
    /\ plans_building = {}
    /\ plan_buffer = {}
    /\ next_layer = -1
    /\ pending_calls = <<>>
    /\ in_exporter = {}
    /\ export_log = <<>>

\* FffGcodeWriter: an empty buffer (FffGcodeWriter.h line 52), no layer started
BufferConstructed ==
    /\ layers_started = {}
    /\ plans_building = {}
    /\ plan_buffer = {}
    /\ next_layer = 0
    /\ pending_calls = <<>>
    /\ in_exporter = {}
    /\ export_log = <<>>

\* a worker of the pool starts to build the LayerPlan of a layer
StartBuild ==
    /\ Cardinality(plans_building) < MaxWorkers
    /\ \E layer_index \in LayerIndices \ layers_started :
          /\ layers_started' = layers_started \cup {layer_index}
          /\ plans_building' = plans_building \cup {layer_index}
    /\ UNCHANGED <<plan_buffer, next_layer, pending_calls, in_exporter, export_log>>
    /\ UNCHANGED exceptBuffer

\* a worker completes its LayerPlan and puts it in the buffer
FinishBuild ==
    /\ \E layer_index \in plans_building :
          \E plan \in BuiltPlans(layer_index) :
              /\ plans_building' = plans_building \ {layer_index}
              /\ plan_buffer' = plan_buffer \cup {plan}
    /\ UNCHANGED <<layers_started, next_layer, pending_calls, in_exporter, export_log>>
    /\ UNCHANGED exceptBuffer

\* the emission thread takes the next plan from the buffer to write it
HandOver ==
    /\ pending_calls = <<>>
    /\ in_exporter = {}
    /\ \E plan \in ReadyPlans(plan_buffer, next_layer) :
          /\ plan_buffer' = plan_buffer \ {plan}
          /\ pending_calls' = writeLayerPlan(plan)
    /\ next_layer' = next_layer + 1
    /\ UNCHANGED <<layers_started, plans_building, in_exporter, export_log>>
    /\ UNCHANGED exceptBuffer

\* the emission thread enters the next call of the exporter
ExportCallBegin ==
    /\ pending_calls # <<>>
    /\ "emission" \notin in_exporter
    /\ in_exporter' = in_exporter \cup {"emission"}
    /\ UNCHANGED <<layers_started, plans_building, plan_buffer, next_layer, pending_calls,
                   export_log>>
    /\ UNCHANGED exceptBuffer

\* the call returns
ExportCallEnd ==
    /\ "emission" \in in_exporter
    /\ export_log' = Append(export_log, Head(pending_calls))
    /\ pending_calls' = Tail(pending_calls)
    /\ in_exporter' = in_exporter \ {"emission"}
    /\ UNCHANGED <<layers_started, plans_building, plan_buffer, next_layer>>
    /\ UNCHANGED exceptBuffer

-----------------------------------------------------------------------------
(* Ratios and factors: exact fractions <<numerator, denominator>> *)

RECURSIVE Gcd(_, _)
Gcd(a, b) == IF b = 0 THEN a ELSE Gcd(b, a % b)
Abs(a) == IF a < 0 THEN -a ELSE a

\* the fraction n/d in lowest terms with a positive denominator
Frac(n, d) ==
    LET g == Gcd(Abs(n), Abs(d))
        sign == IF d < 0 THEN -1 ELSE 1
    IN <<sign * (n \div g), sign * (d \div g)>>
Whole(n) == <<n, 1>>
FracAdd(a, b) == Frac(a[1] * b[2] + b[1] * a[2], a[2] * b[2])
FracSub(a, b) == Frac(a[1] * b[2] - b[1] * a[2], a[2] * b[2])
FracMul(a, b) == Frac(a[1] * b[1], a[2] * b[2])
FracDiv(a, b) == Frac(a[1] * b[2], a[2] * b[1])
FracLess(a, b) == a[1] * b[2] < b[1] * a[2]
\* std::max(a, b): (a < b) ? b : a
FracMax(a, b) == IF FracLess(a, b) THEN b ELSE a

-----------------------------------------------------------------------------
(* ExtruderPlan::applyBackPressureCompensation *)

\* the most paths of the ExtruderPlan
MaxPaths == 2

NoRatio == <<0, 0>>

\* constexpr double epsilon_speed_factor = 0.001 (line 71)
epsilon_speed_factor == Frac(1, 1000)

\* the paths added to the plan: their width factor, the line width and the kind of
\* their config, their speed and speed factor; a new path is not compensated
WidthFactors == {Whole(-1), Whole(0), Frac(1, 2), Whole(2)}
LineWidths == {0, 2}
PathKinds == {"extrusion", "travel", "bridge"}
Paths == {[width_factor |-> width_factor,
           config |-> [line_width |-> nominal_width, kind |-> kind, speed |-> 3],
           speed_factor |-> Frac(1, 2),
           speed_back_pressure_factor |-> Whole(1)] :
             width_factor \in WidthFactors, nominal_width \in LineWidths, kind \in PathKinds}

\* the ratios given to applyBackPressureCompensation
Ratios == {Whole(-2), Whole(0), Whole(1), Whole(2000)}

isTravelPath(config) == config.kind = "travel"
isBridgePath(config) == config.kind = "bridge"

\* the paths the loop passes over (line 75)
skipsPathButBridge(path) ==
    \/ ~FracLess(Whole(0), path.width_factor)
    \/ path.config.line_width <= 0
    \/ isTravelPath(path.config)
skipsPath(path) ==
    \/ ~FracLess(Whole(0), path.width_factor)
    \/ path.config.line_width <= 0
    \/ isTravelPath(path.config)
    \/ isBridgePath(path.config)

\* the factor given to a path that is not passed over (lines 74, 79, 80)
backPressureFactorUnbounded(path, back_pressure_compensation) ==
    LET nominal_width_for_path == Whole(path.config.line_width)
        line_width_for_path == FracMul(path.width_factor, nominal_width_for_path)
    IN FracAdd(Whole(1),
               FracMul(FracSub(FracDiv(nominal_width_for_path, line_width_for_path),
                               Whole(1)),
                       back_pressure_compensation))
backPressureFactorOfWidth(path, back_pressure_compensation) ==
    LET nominal_width_for_path == Whole(path.config.line_width)
        line_width_for_path == FracMul(path.width_factor, nominal_width_for_path)
    IN FracMax(epsilon_speed_factor,
               FracDiv(nominal_width_for_path, line_width_for_path))
backPressureFactor(path, back_pressure_compensation) ==
    LET nominal_width_for_path == Whole(path.config.line_width)
        line_width_for_path == FracMul(path.width_factor, nominal_width_for_path)
    IN FracMax(epsilon_speed_factor,
               FracAdd(Whole(1),
                       FracMul(FracSub(FracDiv(nominal_width_for_path,
                                               line_width_for_path),
                                       Whole(1)),
                               back_pressure_compensation)))

\* applyBackPressureCompensation (path_planning/ExtruderPlan.cpp lines 69-82)
applyBackPressureCompensation(paths, back_pressure_compensation) ==
    [i \in 1..Len(paths) |->
        IF skipsPath(paths[i]) THEN paths[i]
        ELSE [paths[i] EXCEPT !.speed_back_pressure_factor =
                                  backPressureFactor(paths[i], back_pressure_compensation)]]

\* the velocity a move of the path is written with (ExtrusionMove.cpp line 30)
velocityOf(path) ==
    FracMul(FracMul(Whole(path.config.speed), path.speed_factor),
            path.speed_back_pressure_factor)

PressureIdle ==
    /\ paths_ = <<>>
    /\ factors_before = <<>>
    /\ last_ratio = NoRatio
    /\ bpc = "idle"

\* an ExtruderPlan without paths
PressurePlanConstructed ==
    /\ paths_ = <<>>
    /\ factors_before = <<>>
    /\ last_ratio = NoRatio
    /\ bpc = "planning"

\* a path is added to the plan
AddPath ==
    /\ bpc = "planning"
    /\ Len(paths_) < MaxPaths
    /\ \E path \in Paths : paths_' = Append(paths_, path)
    /\ UNCHANGED <<factors_before, last_ratio, bpc>>
    /\ UNCHANGED exceptPressure

\* a call of applyBackPressureCompensation, the first or a later one
ApplyBackPressureCompensation ==
    /\ bpc \in {"planning", "compensated"}
    /\ \E back_pressure_compensation \in Ratios :
          /\ paths_' = applyBackPressureCompensation(paths_, back_pressure_compensation)
          /\ last_ratio' = back_pressure_compensation
    /\ factors_before' = [i \in 1..Len(paths_) |-> paths_[i].speed_back_pressure_factor]
    /\ bpc' = "compensated"
    /\ UNCHANGED exceptPressure

-----------------------------------------------------------------------------
(* The line width of ExtrusionMove::write *)

\* std::llrint in the default rounding mode: the nearest integer, the even one of two
\* equally near
llrint(x) ==
    LET floor == x[1] \div x[2]
        rest == x[1] - floor * x[2]
    IN IF 2 * rest < x[2] THEN floor
       ELSE IF 2 * rest > x[2] THEN floor + 1
       ELSE IF floor % 2 = 0 THEN floor ELSE floor + 1

NoLineWidth == -1

\* the values of a FeatureExtrusion and of a move, all exact in a double
Flows == {Whole(1), Frac(1, 2)}
FeatureWidthFactors == {Whole(1), Frac(3, 4)}
ConfigLineWidths == {1, 2, 3}
FlowRatios == {Whole(1), Frac(5, 4)}
LineWidthRatios == {Frac(1, 2), Whole(1), Frac(3, 2), Whole(2)}
FeatureExtrusions ==
    {[flow |-> flow, width_factor |-> width_factor,
      config |-> [line_width |-> config_line_width, flow_ratio |-> flow_ratio]] :
        flow \in Flows, width_factor \in FeatureWidthFactors,
        config_line_width \in ConfigLineWidths, flow_ratio \in FlowRatios}

\* FeatureExtrusion::getLineWidth (FeatureExtrusion.cpp lines 32-35)
getLineWidth(feature) ==
    llrint(FracMul(FracMul(FracMul(feature.flow, feature.width_factor),
                           Whole(feature.config.line_width)),
                   feature.config.flow_ratio))

\* the line width of ExtrusionMove::write (ExtrusionMove.cpp line 32)
writtenLineWidth(feature, line_width_ratio) ==
    llrint(FracMul(Whole(getLineWidth(feature)), line_width_ratio))

WidthIdle ==
    /\ written_feature = [flow |-> Whole(1), width_factor |-> Whole(1),
                            config |-> [line_width |-> 1, flow_ratio |-> Whole(1)]]
    /\ line_width_ratio_ = Whole(1)
    /\ line_width = NoLineWidth
    /\ lwpc = "idle"

\* an ExtrusionMove in a FeatureExtrusion, not written yet
ExtrusionMovePlanned ==
    /\ written_feature \in FeatureExtrusions
    /\ line_width_ratio_ \in LineWidthRatios
    /\ line_width = NoLineWidth
    /\ lwpc = "planned"

\* ExtrusionMove::write, as far as the line width goes
WriteLineWidth ==
    /\ lwpc = "planned"
    /\ line_width' = writtenLineWidth(written_feature, line_width_ratio_)
    /\ lwpc' = "written"
    /\ UNCHANGED <<written_feature, line_width_ratio_>>
    /\ UNCHANGED exceptWidth

-----------------------------------------------------------------------------
(* MultiExporter *)

\* the exporters that can be registered
ChildExporters == {"gcode", "console", "communication"}

\* the calls of the PathExporter interface, with the arguments that tell them apart
ExporterCalls ==
    {[call |-> "writeExtrusion", position |-> p] : p \in 0..1}
        \cup {[call |-> "writeTravelMove", position |-> 0],
              [call |-> "writeLayerStart", layer_index |-> 0],
              [call |-> "writeLayerEnd", layer_index |-> 0]}

\* one call on the MultiExporter: every child of the list gets the call, in the order
\* of the list; failing holds the children whose call fails
RECURSIVE fanOutUntilFailure(_, _, _)
RECURSIVE fanOut(_, _, _)
fanOutUntilFailure(exporters, call, failing) ==
    IF exporters = <<>> THEN <<>>
    ELSE <<[exporter |-> Head(exporters), call |-> call,
            failed |-> Head(exporters) \in failing]>>
            \o IF Head(exporters) \in failing THEN <<>>
               ELSE fanOutUntilFailure(Tail(exporters), call, failing)
fanOut(exporters, call, failing) ==
    IF exporters = <<>> THEN <<>>
    ELSE <<[exporter |-> Head(exporters), call |-> call,
            failed |-> Head(exporters) \in failing]>>
            \o fanOut(Tail(exporters), call, failing)

MultiIdle ==
    /\ exporters_ = <<>>
    /\ last_call = NoCall
    /\ last_fanout = <<>>
    /\ registered_at_call = <<>>

\* a MultiExporter without children, no call made on it
MultiExporterConstructed ==
    /\ exporters_ = <<>>
    /\ last_call = NoCall
    /\ last_fanout = <<>>
    /\ registered_at_call = <<>>

\* appendExporter, with an exporter that is not registered yet
AppendExporter ==
    /\ \E exporter \in ChildExporters :
          /\ \A i \in 1..Len(exporters_) : exporters_[i] # exporter
          /\ exporters_' = Append(exporters_, exporter)
    /\ UNCHANGED <<last_call, last_fanout, registered_at_call>>
    /\ UNCHANGED exceptMulti

\* writeExtrusion, writeTravelMove, writeLayerStart or writeLayerEnd on the
\* MultiExporter; any of the children may fail
WriteOnMultiExporter ==
    /\ \E call \in ExporterCalls, failing \in SUBSET ChildExporters :
          /\ \A exporter \in failing : \E i \in 1..Len(exporters_) : exporters_[i] = exporter
          /\ last_call' = call
          /\ last_fanout' = fanOut(exporters_, call, failing)
    /\ registered_at_call' = exporters_
    /\ UNCHANGED exporters_
    /\ UNCHANGED exceptMulti

-----------------------------------------------------------------------------
(* The feature extrusion ordering pass *)

\* the most feature extrusions given to the ordering pass
MaxOrderedFeatures == 3

\* the orders in which the feature extrusions 1..n can stand
Orderings(n) ==
    {order \in [1..n -> 1..n] : \A i, j \in 1..n : order[i] = order[j] => i = j}

\* FeatureExtrusionOrderingConstraint: feature_before is to be printed before
\* feature_after
OrderingConstraints(features) ==
    {[feature_before |-> a, feature_after |-> b] : a, b \in features} \
        {[feature_before |-> a, feature_after |-> a] : a \in features}

FeaturesIn(extrusions) == {extrusions[i] : i \in 1..Len(extrusions)}

\* the places of the sequence whose feature has none of the features still in the
\* sequence constrained before it
FreePlaces(remaining, order_constraints) ==
    {i \in 1..Len(remaining) :
        \A c \in order_constraints :
            c.feature_after = remaining[i] => c.feature_before \notin FeaturesIn(remaining)}

WithoutPlace(sequence, i) ==
    SubSeq(sequence, 1, i - 1) \o SubSeq(sequence, i + 1, Len(sequence))

\* the topological sort, stable with respect to the current order: the next feature
\* is always the first of the current order that is free; when no feature is free the
\* rest holds a cycle and keeps its order
RECURSIVE orderFeatureExtrusionsLastFree(_, _)
RECURSIVE orderFeatureExtrusions(_, _)
orderFeatureExtrusionsLastFree(remaining, order_constraints) ==
    IF remaining = <<>> THEN <<>>
    ELSE LET free == FreePlaces(remaining, order_constraints)
         IN IF free = {} THEN remaining
            ELSE LET next == CHOOSE i \in free : \A j \in free : j <= i
                 IN <<remaining[next]>>
                        \o orderFeatureExtrusionsLastFree(WithoutPlace(remaining, next),
                                                          order_constraints)
orderFeatureExtrusions(remaining, order_constraints) ==
    IF remaining = <<>> THEN <<>>
    ELSE LET free == FreePlaces(remaining, order_constraints)
         IN IF free = {} THEN remaining
            ELSE LET next == CHOOSE i \in free : \A j \in free : i <= j
                 IN <<remaining[next]>>
                        \o orderFeatureExtrusions(WithoutPlace(remaining, next),
                                                  order_constraints)

OrderIdle ==
    /\ feature_extrusions = <<>>
    /\ constraints = {}
    /\ ordered_extrusions = <<>>
    /\ opc = "idle"

\* the feature extrusions of an extruder plan, no constraint generated yet
FeatureExtrusionsPlanned ==
    /\ \E n \in 1..MaxOrderedFeatures : feature_extrusions \in Orderings(n)
    /\ constraints = {}
    /\ ordered_extrusions = <<>>
    /\ opc = "constraining"

\* FeatureExtrusionsConstraintsGenerator::appendConstraints: a generator appends a
\* constraint between two of the feature extrusions
AppendConstraints ==
    /\ opc = "constraining"
    /\ \E c \in OrderingConstraints(FeaturesIn(feature_extrusions)) \ constraints :
          constraints' = constraints \cup {c}
    /\ UNCHANGED <<feature_extrusions, ordered_extrusions, opc>>
    /\ UNCHANGED exceptOrder

\* the ordering pass
OrderFeatureExtrusions ==
    /\ opc = "constraining"
    /\ ordered_extrusions' = orderFeatureExtrusions(feature_extrusions, constraints)
    /\ opc' = "ordered"
    /\ UNCHANGED <<feature_extrusions, constraints>>
    /\ UNCHANGED exceptOrder

-----------------------------------------------------------------------------
(* PrintOperationSequence::findOperation *)

\* the most operations below the searched sequence
MaxSearchNodes == 4

\* a std::optional: no element for std::nullopt, else the value as the one element
nullopt == <<>>
Some(value) == <<value>>
ValueOf(optional) == optional[1]

\* SearchDepth::Full and SearchDepth::DirectChildren (lines 23, 24)
Full == nullopt
DirectChildren == Some(0)
SearchDepths == {DirectChildren, Some(1), Full}
SearchOrders == {"Forward", "Backward"}

\* what an operation below the sequence is: a sequence of one of two types, or an
\* extrusion move at a position
SequenceTypes == {"ExtruderPlan", "FeatureExtrusion"}
MovePositions == {0, 1}
OperationKinds ==
    {[type |-> type, position |-> nullopt] : type \in SequenceTypes}
        \cup {[type |-> "ExtrusionMove", position |-> Some(position)] :
                 position \in MovePositions}
OperationTypes == {kind.type : kind \in OperationKinds}

NoSearch == [order |-> "none"]
\* the null pointer of findOperation: the path of no operation
NotFound == <<>>

\* getOperations() of the operation at a path: the paths of its children, in order
NumOperations(tree, path) ==
    Cardinality({p \in DOMAIN tree : Len(p) = Len(path) + 1 /\ SubSeq(p, 1, Len(path)) = path})
getOperations(tree, path) ==
    [i \in 1..NumOperations(tree, path) |-> Append(path, i)]

\* the children in the order of the search
InSearchOrder(children, search_order) ==
    IF search_order = "Forward" THEN children ELSE Reverse(children)

\* the first of the sequence that is in the set, NotFound without one
RECURSIVE FirstIn(_, _)
FirstIn(paths, matching) ==
    IF paths = <<>> THEN NotFound
    ELSE IF Head(paths) \in matching THEN Head(paths)
    ELSE FirstIn(Tail(paths), matching)

\* findOperation on the sequence at a path; search_function is the set of types the
\* search function accepts. The direct children are tried first, in the search order;
\* then, when max_depth allows, the children are searched in that order, one level less
\* deep
RECURSIVE findOperation(_, _, _, _, _)
RECURSIVE findOperationBelow(_, _, _, _, _)
findOperationBelow(tree, children, search_function, search_order, next_depth) ==
    IF children = <<>> THEN NotFound
    ELSE LET result == findOperation(tree, Head(children), search_function, search_order,
                                     next_depth)
         IN IF result # NotFound THEN result
            ELSE findOperationBelow(tree, Tail(children), search_function, search_order,
                                    next_depth)
findOperation(tree, path, search_function, search_order, max_depth) ==
    LET children == InSearchOrder(getOperations(tree, path), search_order)
        direct == FirstIn(children, {p \in DOMAIN tree : tree[p].type \in search_function})
    IN IF direct # NotFound THEN direct
       ELSE IF max_depth = Full
            THEN findOperationBelow(tree, children, search_function, search_order, Full)
       ELSE IF ValueOf(max_depth) > 0
            THEN findOperationBelow(tree, children, search_function, search_order,
                                    Some(ValueOf(max_depth) - 1))
       ELSE NotFound

\* findOperationByType<OperationType> (PrintOperationSequence.h lines 92-109)
findOperationByTypeInFullTree(tree, OperationType, search_order, max_depth) ==
    LET found == findOperation(tree, <<>>, {OperationType}, search_order, Full)
    IN IF found # NotFound THEN found ELSE NotFound
findOperationByType(tree, OperationType, search_order, max_depth) ==
    LET found == findOperation(tree, <<>>, {OperationType}, search_order, max_depth)
    IN IF found # NotFound THEN found ELSE NotFound

SearchIdle ==
    /\ search_tree = <<>>
    /\ search_args = NoSearch
    /\ found_operation = NotFound
    /\ found_positions = NoSearch
    /\ fpc = "idle"

\* a sequence without operations
SearchSequenceConstructed ==
    /\ search_tree = <<>>
    /\ search_args = NoSearch
    /\ found_operation = NotFound
    /\ found_positions = NoSearch
    /\ fpc = "building"

\* appendOperation on the sequence or on a sequence below it
AppendSearchOperation ==
    /\ fpc = "building"
    /\ Cardinality(DOMAIN search_tree) < MaxSearchNodes
    /\ \E parent \in {<<>>} \cup {p \in DOMAIN search_tree :
                                     search_tree[p].type \in SequenceTypes},
          kind \in OperationKinds :
          search_tree' = [p \in DOMAIN search_tree
                                 \cup {Append(parent, NumOperations(search_tree, parent) + 1)} |->
                             IF p \in DOMAIN search_tree THEN search_tree[p] ELSE kind]
    /\ UNCHANGED <<search_args, found_operation, found_positions, fpc>>
    /\ UNCHANGED exceptSearch

\* findOperationByType on the sequence
FindOperationByType ==
    /\ fpc = "building"
    /\ \E OperationType \in OperationTypes, search_order \in SearchOrders,
          max_depth \in SearchDepths :
          /\ search_args' = [type |-> OperationType, order |-> search_order,
                             max_depth |-> max_depth]
          /\ found_operation' = findOperationByType(search_tree, OperationType, search_order,
                                                    max_depth)
    /\ fpc' = "searched"
    /\ UNCHANGED <<search_tree, found_positions>>
    /\ UNCHANGED exceptSearch

\* findStartPosition of the operation at a path: the position of a move; for a
\* sequence the start position of the first of its children that has one
RECURSIVE findStartPositionInTree(_, _)
RECURSIVE findStartPositionFrom(_, _)
findStartPositionFrom(tree, children) ==
    IF children = <<>> THEN nullopt
    ELSE LET start_position == findStartPositionInTree(tree, Head(children))
         IN IF start_position # nullopt THEN start_position
            ELSE findStartPositionFrom(tree, Tail(children))
RECURSIVE findStartPositionOfFirstChild(_, _)
findStartPositionOfFirstChild(tree, path) ==
    IF path # <<>> /\ tree[path].type \notin SequenceTypes THEN tree[path].position
    ELSE IF NumOperations(tree, path) = 0 THEN nullopt
    ELSE findStartPositionOfFirstChild(tree, Append(path, 1))
findStartPositionInTree(tree, path) ==
    IF path # <<>> /\ tree[path].type \notin SequenceTypes THEN tree[path].position
    ELSE findStartPositionFrom(tree, getOperations(tree, path))

\* findEndPosition: the same from the last child backwards
RECURSIVE findEndPositionInTree(_, _)
RECURSIVE findEndPositionFrom(_, _)
findEndPositionFrom(tree, children) ==
    IF children = <<>> THEN nullopt
    ELSE LET end_position == findEndPositionInTree(tree, Head(children))
         IN IF end_position # nullopt THEN end_position
            ELSE findEndPositionFrom(tree, Tail(children))
findEndPositionInTree(tree, path) ==
    IF path # <<>> /\ tree[path].type \notin SequenceTypes THEN tree[path].position
    ELSE findEndPositionFrom(tree, Reverse(getOperations(tree, path)))

\* findStartPosition and findEndPosition on the sequence
FindPositions ==
    /\ fpc = "building"
    /\ found_positions' = [order |-> "both",
                           start |-> findStartPositionInTree(search_tree, <<>>),
                           end |-> findEndPositionInTree(search_tree, <<>>)]
    /\ fpc' = "positioned"
    /\ UNCHANGED <<search_tree, search_args, found_operation>>
    /\ UNCHANGED exceptSearch

-----------------------------------------------------------------------------
(* PrintOperationSequence::applyProcessorToOperationsRecursively *)

\* the longest list given to setOperations on the walked tree
MaxListed == 2

\* the receiver of the walk, a sequence that can stand below it, and two moves
Receiver == "plan"
InnerSequences == {"feature"}
ProcessMoves == {"m1", "m2"}
ProcessSequences == {Receiver} \cup InnerSequences
ProcessOperations == InnerSequences \cup ProcessMoves

\* the operations a sequence can be given as children (a sequence is never put below
\* itself)
ListableIn(s) == IF s = Receiver THEN ProcessOperations ELSE ProcessMoves

\* the types a walk can be made for, and std::dynamic_pointer_cast<ChildType>
ChildTypes == {"PrintOperation", "PrintOperationSequence", "ExtruderMove"}
IsOfType(operation, ChildType) ==
    \/ ChildType = "PrintOperation"
    \/ ChildType = "PrintOperationSequence" /\ operation \in ProcessSequences
    \/ ChildType = "ExtruderMove" /\ operation \in ProcessMoves

\* applyProcessorToOperationsRecursively (PrintOperationSequence.h lines 158-173): the
\* calls of processor.process, in order, for the operations of the list from place i on
RECURSIVE applyProcessorToOperationsRecursively(_, _, _, _)
applyProcessorToOperationsRecursively(ops, list, i, ChildType) ==
    IF i > Len(list) THEN <<>>
    ELSE LET operation == list[i]
         IN (IF operation \in ProcessSequences
             THEN applyProcessorToOperationsRecursively(ops, ops[operation], 1, ChildType)
             ELSE <<>>)
            \o (IF IsOfType(operation, ChildType) THEN <<operation>> ELSE <<>>)
            \o applyProcessorToOperationsRecursively(ops, list, i + 1, ChildType)

ProcessIdle ==
    /\ node_operations = <<>>
    /\ node_parent = <<>>
    /\ child_type = Null
    /\ process_calls = <<>>
    /\ apc = "idle"

\* empty sequences and parentless operations
ProcessTreeConstructed ==
    /\ node_operations = [s \in ProcessSequences |-> <<>>]
    /\ node_parent = [c \in ProcessOperations |-> Null]
    /\ child_type = Null
    /\ process_calls = <<>>
    /\ apc = "building"

\* appendOperation on a sequence of the tree
AppendToProcessTree ==
    /\ apc = "building"
    /\ \E s \in ProcessSequences : \E c \in ListableIn(s) :
          LET after == appendOperation(node_operations, node_parent, s, c)
          IN /\ Len(node_operations[s]) < MaxListed
             /\ node_operations' = after.operations_
             /\ node_parent' = after.parent_
    /\ UNCHANGED <<child_type, process_calls, apc>>
    /\ UNCHANGED exceptProcess

\* setOperations on a sequence of the tree
SetOperationsOfProcessTree ==
    /\ apc = "building"
    /\ \E s \in ProcessSequences : \E operations \in SeqsUpTo(ListableIn(s), MaxListed) :
          LET after == setOperations(node_operations, node_parent, s, operations)
          IN /\ node_operations' = after.operations_
             /\ node_parent' = after.parent_
    /\ UNCHANGED <<child_type, process_calls, apc>>
    /\ UNCHANGED exceptProcess

\* applyProcessorToOperationsRecursively<ChildType> on the receiver
ApplyProcessorToOperationsRecursively ==
    /\ apc = "building"
    /\ \E ChildType \in ChildTypes :
          /\ child_type' = ChildType
          /\ process_calls' = applyProcessorToOperationsRecursively(
                              node_operations, node_operations[Receiver], 1, ChildType)
    /\ apc' = "processed"
    /\ UNCHANGED <<node_operations, node_parent>>
    /\ UNCHANGED exceptProcess

-----------------------------------------------------------------------------
(* The smoothing action, smooth_fn *)

\* the most points of a path given to smooth
MaxSmoothPoints == 4

\* the coordinates of the points, the resolutions and the fluid angles. With these
\* coordinates every cosine the action computes is 0, 1/2 or 1, plus or minus, or
\* lies outside [-1, 1]
SmoothCoords == {0, 1, 2}
MaxResolutions == {1, 2}
FluidAngles == {1, 5, 9}

\* std::acos in units of 15 degrees; NotANumber outside [-1, 1]
NotANumber == -1
acos(x) ==
    IF x = Whole(1) THEN 0
    ELSE IF x = Frac(1, 2) THEN 4
    ELSE IF x = Whole(0) THEN 6
    ELSE IF x = Frac(-1, 2) THEN 8
    ELSE IF x = Whole(-1) THEN 12
    ELSE NotANumber

\* std::hypot of the difference of two points (computeMagnitudes, lines 94-101)
Magnitude(a, b) == Abs(b - a)

\* cosAngle (lines 105-116)
cosAngle(A, B, C, AB_magnitude, BC_magnitude) ==
    IF AB_magnitude = 0 \/ BC_magnitude = 0 THEN Whole(0)
    ELSE Frac((B - A) * (C - B), AB_magnitude * BC_magnitude)

\* isWithinAllowedDeviations (lines 144-157); a comparison with NaN is false
isWithinAllowedDeviations(A, B, C, D, fluid, resolution) ==
    IF Magnitude(B, C) > resolution THEN TRUE
    ELSE LET cos_A == acos(cosAngle(A, B, C, Magnitude(A, B), Magnitude(B, C)))
             cos_B == acos(cosAngle(A, B, D, Magnitude(A, B), Magnitude(C, D)))
         IN /\ cos_A # NotANumber
            /\ cos_B # NotANumber
            /\ Abs(cos_A - cos_B) < fluid

\* shiftPointTowards (lines 120-136): the new coordinate of the point
shiftPointTowards(point, target, p0p1_distance, smooth_distance) ==
    LET shift == FracMul(Whole(target - point), Frac(smooth_distance, p0p1_distance))
    IN point + (IF shift[1] >= 0 THEN shift[1] \div shift[2]
                ELSE -((-shift[1]) \div shift[2]))

\* ref_view (line 54): the places of tmp the windows pass over
RefView(n) ==
    [i \in 1..(n - 1) |-> i + 1] \o [i \in 1..n |-> i] \o [i \in 1..4 |-> i]

\* the filtered view (line 55): the first place of ref_view after pos whose point is
\* not marked, Len + 1 for the end
NextWindowPlace(ref_view, to_remove, pos) ==
    LET later == {q \in (pos + 1)..Len(ref_view) : ref_view[q] \notin to_remove}
    IN IF later = {} THEN Len(ref_view) + 1
       ELSE CHOOSE q \in later : \A r \in later : q <= r

\* ranges::distance(windows_it, ranges::end(windows))
WindowDistance(ref_view, to_remove, pos) ==
    1 + Cardinality({q \in (pos + 1)..Len(ref_view) : ref_view[q] \notin to_remove})

\* the removal guard of lines 73 and 81
mayRemoveAlways(size, to_remove) == TRUE
mayRemove(size, to_remove) == size - Cardinality(to_remove) > 2

\* one pass of the loop (lines 61-85). past_end is what the read of D gives when
\* std::next(windows_it, 3) is the end of the view
SmoothWindow(st, resolution, fluid, past_end) ==
    LET ref_view == RefView(Len(st.tmp))
        size == Len(st.tmp) - 1
        allowed_deviation == (resolution * 2) \div 3
        smooth_distance == resolution \div 2
        pB == NextWindowPlace(ref_view, st.to_remove, st.pos)
        pC == NextWindowPlace(ref_view, st.to_remove, pB)
        pD == NextWindowPlace(ref_view, st.to_remove, pC)
        iB == ref_view[pB]
        iC == ref_view[pC]
        A == st.tmp[ref_view[st.pos]]
        B == st.tmp[iB]
        C == st.tmp[iC]
        D == IF pD > Len(ref_view) THEN past_end ELSE st.tmp[ref_view[pD]]
        AB_magnitude == Magnitude(A, B)
        CD_magnitude == Magnitude(C, D)
        modifies == ~isWithinAllowedDeviations(A, B, C, D, fluid, resolution)
        shift_B == modifies /\ AB_magnitude > allowed_deviation
        mark_B == modifies /\ ~shift_B /\ mayRemove(size, st.to_remove)
        tmp_B == IF shift_B
                 THEN [st.tmp EXCEPT ![iB] = shiftPointTowards(B, A, AB_magnitude,
                                                               smooth_distance)]
                 ELSE st.tmp
        to_remove_B == IF mark_B THEN st.to_remove \cup {iB} ELSE st.to_remove
        D_now == IF pD > Len(ref_view) THEN past_end ELSE tmp_B[ref_view[pD]]
        shift_C == modifies /\ CD_magnitude > allowed_deviation
        mark_C == modifies /\ ~shift_C /\ mayRemove(size, to_remove_B)
        tmp_C == IF shift_C
                 THEN [tmp_B EXCEPT ![iC] = shiftPointTowards(tmp_B[iC], D_now, CD_magnitude,
                                                              smooth_distance)]
                 ELSE tmp_B
        to_remove_C == IF mark_C THEN to_remove_B \cup {iC} ELSE to_remove_B
    IN [tmp |-> tmp_C,
        to_remove |-> to_remove_C,
        pos |-> NextWindowPlace(ref_view, to_remove_C, st.pos),
        log |-> Append(st.log,
                       [A |-> A, B |-> B, C |-> C, D |-> D, iB |-> iB, iC |-> iC,
                        shift_B |-> shift_B, mark_B |-> mark_B,
                        shift_C |-> shift_C, mark_C |-> mark_C,
                        unmarked_B |-> Len(st.tmp) - Cardinality(st.to_remove),
                        unmarked_C |-> Len(st.tmp) - Cardinality(to_remove_B)])]

\* the loop of line 59
RECURSIVE SmoothLoop(_, _, _, _)
SmoothLoop(st, resolution, fluid, past_end) ==
    IF WindowDistance(RefView(Len(st.tmp)), st.to_remove, st.pos) > 2
    THEN SmoothLoop(SmoothWindow(st, resolution, fluid, past_end), resolution, fluid,
                    past_end)
    ELSE st

\* ranges::actions::remove_if of line 88: its predicate takes the point by value and
\* looks up the address of that copy, which is the address of no point of tmp
removeIfAddressOfCopyMarked(tmp, to_remove) == tmp

\* smooth_fn::operator() (lines 39-89): the path returned and what the windows did
smoothClosingThePath(path, resolution, fluid, past_end) ==
    [path |-> Append(path, path[1]), log |-> <<>>, to_remove |-> {}]
smooth(path, resolution, fluid, past_end) ==
    IF Len(path) - 1 < 3 THEN [path |-> path, log |-> <<>>, to_remove |-> {}]
    ELSE LET st == SmoothLoop([tmp |-> path, to_remove |-> {}, pos |-> 1, log |-> <<>>],
                              resolution, fluid, past_end)
         IN [path |-> removeIfAddressOfCopyMarked(st.tmp, st.to_remove), log |-> st.log,
             to_remove |-> st.to_remove]

SmoothIdle ==
    /\ rng = <<>>
    /\ max_resolution = 0
    /\ fluid_angle = 0
    /\ smoothed = <<>>
    /\ windows_log = <<>>
    /\ mpc = "idle"

\* a path and the arguments of smooth
SmoothCalled ==
    /\ rng \in NonEmptySeqsUpTo(SmoothCoords, MaxSmoothPoints)
    /\ max_resolution \in MaxResolutions
    /\ fluid_angle \in FluidAngles
    /\ smoothed = <<>>
    /\ windows_log = <<>>
    /\ mpc = "called"

\* smooth_fn::operator()
Smooth ==
    /\ mpc = "called"
    /\ \E past_end \in SmoothCoords :
          LET result == smooth(rng, max_resolution, fluid_angle, past_end)
          IN /\ smoothed' = result.path
             /\ windows_log' = result.log
    /\ mpc' = "returned"
    /\ UNCHANGED <<rng, max_resolution, fluid_angle>>
    /\ UNCHANGED exceptSmooth

-----------------------------------------------------------------------------
(* ExtruderPlan::insertCommand, handleInserts, handleAllRemainingInserts *)

\* the most insertCommand calls made on a plan
MaxInserts == 3

\* the path indices inserts are made for and handleInserts is called with, and the
\* times (time_after_path_start of an insert, cumulative_path_time of a call)
InsertPathIndices == {0, 1}
InsertTimes == {0, 1}
CumulativePathTimes == {0, 1, 2}

\* NozzleTempInsert::write(gcode): the insert is written to the gcode
writeInsert(gcode, insert) == Append(gcode, insert)

\* insertCommand (path_planning/ExtruderPlan.cpp lines 31-34)
insertCommand(inserts, insert) == Append(inserts, insert)

RECURSIVE handleInserts(_, _, _, _)
RECURSIVE handleInsertsWhateverTheTime(_, _, _, _)
\* handleInserts without the comparison of the times
handleInsertsWhateverTheTime(inserts, gcode, path_idx, cumulative_path_time) ==
    IF inserts # <<>> /\ path_idx >= Head(inserts).path_idx
    THEN handleInsertsWhateverTheTime(Tail(inserts), writeInsert(gcode, Head(inserts)),
                                      path_idx, cumulative_path_time)
    ELSE [inserts_ |-> inserts, gcode |-> gcode]

\* handleInserts (lines 36-43): the queue and the gcode afterwards
handleInserts(inserts, gcode, path_idx, cumulative_path_time) ==
    IF /\ inserts # <<>>
       /\ path_idx >= Head(inserts).path_idx
       /\ Head(inserts).time_after_path_start < cumulative_path_time
    THEN handleInserts(Tail(inserts), writeInsert(gcode, Head(inserts)),
                       path_idx, cumulative_path_time)
    ELSE [inserts_ |-> inserts, gcode |-> gcode]

RECURSIVE handleAllRemainingInserts(_, _)
\* handleAllRemainingInserts (lines 45-53)
handleAllRemainingInserts(inserts, gcode) ==
    IF inserts # <<>>
    THEN handleAllRemainingInserts(Tail(inserts), writeInsert(gcode, Head(inserts)))
    ELSE [inserts_ |-> inserts, gcode |-> gcode]

InsertsIdle ==
    /\ inserts_ = <<>>
    /\ gcode_inserts = <<>>
    /\ inserted = 0
    /\ insert_call = NoCall

\* an ExtruderPlan after its constructor (lines 11-29): no inserts
InsertsPlanConstructed ==
    /\ inserts_ = <<>>
    /\ gcode_inserts = <<>>
    /\ inserted = 0
    /\ insert_call = [call |-> "constructor"]

\* a call of insertCommand; nr tells the inserts apart: it is the number of the call
InsertCommand ==
    /\ inserted < MaxInserts
    /\ \E idx \in InsertPathIndices : \E time \in InsertTimes :
          LET insert == [nr |-> inserted + 1, path_idx |-> idx,
                         time_after_path_start |-> time]
          IN /\ inserts_' = insertCommand(inserts_, insert)
             /\ insert_call' = [call |-> "insertCommand", nr |-> inserted + 1]
    /\ inserted' = inserted + 1
    /\ UNCHANGED gcode_inserts
    /\ UNCHANGED exceptInserts

HandleInserts ==
    /\ \E idx \in InsertPathIndices : \E time \in CumulativePathTimes :
          LET after == handleInserts(inserts_, gcode_inserts, idx, time)
          IN /\ inserts_' = after.inserts_
             /\ gcode_inserts' = after.gcode
             /\ insert_call' = [call |-> "handleInserts", path_idx |-> idx,
                                cumulative_path_time |-> time]
    /\ UNCHANGED inserted
    /\ UNCHANGED exceptInserts

HandleAllRemainingInserts ==
    /\ LET after == handleAllRemainingInserts(inserts_, gcode_inserts)
       IN /\ inserts_' = after.inserts_
          /\ gcode_inserts' = after.gcode
    /\ insert_call' = [call |-> "handleAllRemainingInserts"]
    /\ UNCHANGED inserted
    /\ UNCHANGED exceptInserts

-----------------------------------------------------------------------------
(* Properties of stitchContours *)

\* the places <<polygon, position>> where line i was appended
AppendedAt(i) ==
    {pl \in {<<k, j>> : k \in 1..Len(appended), j \in 1..MaxLines + 1} :
        /\ pl[2] <= Len(appended[pl[1]])
        /\ appended[pl[1]][pl[2]][1] = i}

\* the points of the lines appended to polygon k, each forward or reversed
PointsAppended(k) ==
    Flatten([j \in 1..Len(appended[k]) |->
                IF appended[k][j][2] THEN Reverse(input[appended[k][j][1]])
                ELSE input[appended[k][j][1]]])

\* C1: stitchContours appends every input polyline to exactly one output polygon
\* exactly once, forward or reversed: a line is appended at most once at any time, it
\* is appended iff it is marked processed, at the return every line has been appended
\* once, and the points of every output polygon are those of the lines appended to it
\* (so no line's points are emitted twice).
C1_EachLineStitchedOnce ==
    /\ \A i \in 1..Len(input) :
          /\ Cardinality(AppendedAt(i)) <= 1
          /\ (i \in processed_lines) <=> (Cardinality(AppendedAt(i)) = 1)
    /\ spc = "done" => \A i \in 1..Len(input) : Cardinality(AppendedAt(i)) = 1
    /\ Len(output) = Len(appended)
    /\ \A k \in 1..Len(output) : output[k] = PointsAppended(k)

\* a run that chained three lines into one polygon, one of them reversed
C1_Witness ==
    /\ spc = "done"
    /\ Len(input) = 3
    /\ Len(output) = 1
    /\ Len(appended[1]) = 3
    /\ \E j \in 1..3 : appended[1][j][2]

\* the lines appended before position j of polygon k
AppendedBefore(k, j) ==
    {appended[pl[1]][pl[2]][1] :
        pl \in {q \in (1..Len(appended)) \X (1..MaxLines + 1) :
                   /\ q[2] <= Len(appended[q[1]])
                   /\ q[1] < k \/ (q[1] = k /\ q[2] < j)}}

\* a candidate is a line and the end it is matched by (TRUE: its back junction)
CandidatePoint(c) == IF c[2] THEN Last(input[c[1]]) ELSE Head(input[c[1]])

\* the unprocessed lines with their start or end within stitch_distance of position
StitchCandidates(position, processed) ==
    {c \in (1..Len(input)) \X BOOLEAN :
        /\ c[1] \notin processed
        /\ vSize2(CandidatePoint(c), position) <= stitch_distance * stitch_distance}

\* the place of a candidate in the order the loops meet them: the starts, then the ends
Encounter(c) == IF c[2] THEN Len(input) + c[1] ELSE c[1]

\* c is the nearest of the candidates, and of the nearest ones the first encountered
IsSelection(c, position, processed) ==
    /\ c \in StitchCandidates(position, processed)
    /\ \A d \in StitchCandidates(position, processed) :
          \/ vSize2(CandidatePoint(c), position) < vSize2(CandidatePoint(d), position)
          \/ /\ vSize2(CandidatePoint(c), position) = vSize2(CandidatePoint(d), position)
             /\ Encounter(c) <= Encounter(d)

\* C25: the line chained after another is, among the unprocessed lines whose start or
\* end lies within stitch_distance of current_position (the back junction of the line
\* before), the one at the smallest squared distance, of several at that distance the
\* first encountered (a start match before an end match); it is appended reversed
\* exactly when it was matched by its end; a chain ends only when there is no candidate.
C25_NearestCandidateSelected ==
    /\ \A k \in 1..Len(appended) : \A j \in 2..Len(appended[k]) :
          IsSelection(appended[k][j], Last(input[appended[k][j - 1][1]]),
                      AppendedBefore(k, j))
    /\ \A k \in 1..Len(appended) :
          (Len(appended[k]) >= 1 /\ (k < Len(appended) \/ spc \in {"outer", "done"})) =>
              StitchCandidates(Last(input[appended[k][Len(appended[k])][1]]),
                               AppendedBefore(k, Len(appended[k]) + 1)) = {}
    /\ (spc = "chain" /\ appended[Len(appended)] # <<>>) =>
          IsSelection(<<nearest, nearest_reverse>>,
                      Last(input[appended[Len(appended)][Len(appended[Len(appended)])][1]]),
                      processed_lines)
    /\ \A k \in 1..Len(output) : output[k] = PointsAppended(k)

\* a line was chained reversed, matched by its end at distance 0, although the start
\* of an earlier line of the input lay within stitch_distance, farther away
C25_Witness ==
    /\ spc = "done"
    /\ stitch_distance = 1
    /\ \E k \in 1..Len(appended) : \E j \in 2..Len(appended[k]) :
          LET position == Last(input[appended[k][j - 1][1]])
              chosen == appended[k][j]
          IN /\ chosen[2]
             /\ vSize2(CandidatePoint(chosen), position) = 0
             /\ \E d \in StitchCandidates(position, AppendedBefore(k, j)) :
                   /\ ~d[2]
                   /\ d[1] < chosen[1]
                   /\ vSize2(CandidatePoint(d), position) = 1

\* the first and the last point emitted for an appended line <<i, reversed>>
FirstEmitted(a) == Head(AddedPoints(input[a[1]], a[2]))
LastEmitted(a) == Last(AddedPoints(input[a[1]], a[2]))

\* C26: in every output polygon each two consecutively stitched lines are joined at
\* nearby endpoints: the last point emitted for the earlier line and the first point
\* emitted for the later line are within stitch_distance of each other, also when the
\* earlier line was appended in reverse.
C26_ConsecutiveLinesJoined ==
    \A k \in 1..Len(appended) : \A j \in 2..Len(appended[k]) :
        vSize2(LastEmitted(appended[k][j - 1]), FirstEmitted(appended[k][j]))
            <= stitch_distance * stitch_distance

\* the lines appended so far, over all polygons
LinesAppended == Flatten(appended)

\* C28: stitchContours returns for every input: until it has returned it is in its
\* outer loops or in the chain loop, at a line of the input, and its loops are
\* bounded, the outer ones by the lines of the input and the
\* chain loop because each of its passes marks one line that was not processed before
\* (and appends it), so that the passes are as many as the lines processed and, at the
\* return, as the input lines; every polygon that was opened holds the points of at
\* least one line once its chain is over, and there are at most as many polygons as
\* input lines.
C28_StitchTerminates ==
    /\ spc \in {"outer", "chain", "done"}
    /\ line_idx \in 1..Len(input) + 1
    /\ chain_passes = Cardinality(processed_lines)
    /\ chain_passes = Len(LinesAppended)
    /\ chain_passes <= Len(input)
    /\ spc = "chain" => nearest \in (1..Len(input)) \ processed_lines
    /\ spc = "done" => chain_passes = Len(input)
    /\ Len(output) <= Len(input)
    /\ \A k \in 1..Len(appended) :
          (k < Len(appended) \/ spc \in {"outer", "done"}) =>
              /\ appended[k] # <<>>
              /\ output[k] # <<>>

\* a run over three lines returned with two polygons, one of them a chain of two lines
C28_Witness ==
    /\ spc = "done"
    /\ chain_passes = 3
    /\ Len(input) = 3
    /\ Len(output) = 2
    /\ \E k \in 1..2 : Len(appended[k]) = 2

-----------------------------------------------------------------------------
(* Properties of WallToolPaths *)

Ran(stage) == \E i \in 1..Len(trace) : trace[i] = stage

\* all junctions of all lines of all paths
AllJunctions(paths) == Flatten(Flatten(paths))

AllWidthsPositive(junctions) == \A i \in 1..Len(junctions) : junctions[i].w > 0
AllWidthsZero(junctions) == \A i \in 1..Len(junctions) : junctions[i].w = 0

\* a path whose junctions are all of zero width or all of non-zero width
UniformWidths(path) ==
    AllWidthsPositive(JunctionsOf(path)) \/ AllWidthsZero(JunctionsOf(path))

\* C2 as claimed: after the partition every junction left in toolpaths has w > 0 and
\* every junction routed to contour_paths has w == 0, whatever the paths hold.
C2_AllJunctionsPartitioned ==
    Ran("computeInnerContour") =>
        /\ AllWidthsPositive(AllJunctions(toolpaths))
        /\ AllWidthsZero(AllJunctions(contour_paths))

\* C2 as amended: after the partition the first junction of every path left in
\* toolpaths has w > 0 and the first junction of every path routed to contour_paths
\* has w == 0; all junctions of a path agree with its first one when the widths of the
\* path are uniform (all zero or all non-zero).
C2_FirstJunctionPartitioned ==
    Ran("computeInnerContour") =>
        /\ \A i \in 1..Len(toolpaths) :
              /\ toolpaths[i] # <<>> => toolpaths[i][1][1].w > 0
              /\ UniformWidths(toolpaths[i]) => AllWidthsPositive(JunctionsOf(toolpaths[i]))
        /\ \A i \in 1..Len(contour_paths) :
              /\ contour_paths[i] # <<>> /\ contour_paths[i][1][1].w = 0
              /\ UniformWidths(contour_paths[i])
                    => AllWidthsZero(JunctionsOf(contour_paths[i]))

\* a partition that kept a path of mixed widths in toolpaths (its first junction has a
\* width) and routed a path of mixed widths to contour_paths (its first junction has
\* none)
C2_Witness ==
    /\ Ran("computeInnerContour")
    /\ ~AllWidthsPositive(AllJunctions(toolpaths))
    /\ ~AllWidthsZero(AllJunctions(contour_paths))
    /\ \E i \in 1..Len(toolpaths) : ~UniformWidths(toolpaths[i])
    /\ \E i \in 1..Len(contour_paths) : ~UniformWidths(contour_paths[i])

\* C3: with inset_count = 0 and an outline of positive prepared area, generate() and
\* getToolPaths() complete without an arithmetic fault, and getInnerContour() returns
\* the outline.
C3_ZeroInsetsComplete ==
    (inset_count = 0 /\ prepared_area > 0) =>
        /\ wpc # "fault"
        /\ returned.call = "getInnerContour" => returned.value = outline

\* C4: when the prepared outline has area <= 0, generate() builds no beading strategy,
\* runs no trapezoidation and no contour stitching, leaves toolpaths and inner_contour
\* empty, sets toolpaths_generated and returns normally.
C4_DegenerateOutlineIsEmpty ==
    prepared_area <= 0 =>
        /\ wpc # "fault"
        /\ toolpaths_generated =>
              /\ trace = <<"prepare", "removeEmptyToolPaths">>
              /\ toolpaths = <<>>
              /\ inner_contour = <<>>
              /\ contour_paths = <<>>
        /\ returned.call \in {"generate", "getToolPaths"} =>
              toolpaths_generated /\ returned.value = <<>>

\* generate() has returned for an outline without area
C4_Witness ==
    /\ prepared_area <= 0
    /\ toolpaths_generated
    /\ returned.call = "generate"
    /\ wpc = "ready"

\* the lines of a path that have a junction
LinesWithJunctions(path) == {l \in 1..Len(path) : path[l] # <<>>}

\* the first junction the two loops of the lambda come to
FirstJunction(path) ==
    path[CHOOSE l \in LinesWithJunctions(path) :
            \A other \in LinesWithJunctions(path) : l <= other][1]

\* the class of an entry by its first junction: TRUE is toolpaths
ClassOfEntry(path) ==
    IF LinesWithJunctions(path) = {} THEN TRUE ELSE FirstJunction(path).w # 0

\* the entries of the emitted paths of one class
EntriesOfClass(class) ==
    {i \in 1..Len(emitted_paths) : ClassOfEntry(emitted_paths[i]) = class}

\* part holds the entries of the class, in their order in the input
HoldsInInputOrder(part, class) ==
    /\ Len(part) = Cardinality(EntriesOfClass(class))
    /\ \A i \in EntriesOfClass(class) :
          part[Cardinality({j \in EntriesOfClass(class) : j <= i})] = emitted_paths[i]

\* C27: the partition of computeInnerContour classifies each entry by the first
\* junction it comes to only: an entry whose first junction has w # 0 goes to
\* toolpaths, one whose first junction has w = 0 to contour_paths, an entry without
\* junctions to toolpaths; within each of the two outputs the entries keep the order
\* they have in the input.
C27_PartitionByFirstJunctionKeepsOrder ==
    Ran("computeInnerContour") =>
        /\ HoldsInInputOrder(actual_toolpaths, TRUE)
        /\ HoldsInInputOrder(contour_paths, FALSE)

\* a partition of two entries: one without junctions went to the toolpaths, one whose
\* first junction has no width but whose second has went to the contour paths
C27_Witness ==
    /\ Ran("computeInnerContour")
    /\ Len(emitted_paths) = 2
    /\ \E i \in 1..Len(actual_toolpaths) : actual_toolpaths[i] = <<>>
    /\ \E i \in 1..Len(contour_paths) :
          /\ contour_paths[i][1][1].w = 0
          /\ contour_paths[i][1][2].w # 0

-----------------------------------------------------------------------------
(* Properties of the print operation tree *)

\* C5: after any calls of appendOperation, removeOperation and setOperations, every
\* node with a parent is listed exactly once among its parent's children, and no node
\* is listed as a child of a sequence that is not its parent.
C5_TreeInvariant ==
    /\ \A c \in Operations :
          parent_[c] # Null => Count(operations_[parent_[c]], c) = 1
    /\ \A s \in Sequences_ : \A i \in 1..Len(operations_[s]) :
          parent_[operations_[s][i]] = s

\* C6: for a sequence s and a parentless node c, appendOperation(c) followed by
\* removeOperation(c) leaves the children of s as they were before the append, and c
\* without a parent.
C6_AppendRemoveRestores ==
    undo.stage = "removed" =>
        /\ operations_[undo.s] = undo.before
        /\ parent_[undo.c] = Null

C29_SetOperationsFrame ==
    [][last_op'.op = "setOperations" =>
         LET s == last_op'.s
             new_list == last_op'.operations
         IN (\A i \in 1..Len(operations_[s]) : parent_[operations_[s][i]] = s) =>
                /\ operations_'[s] = new_list
                /\ \A i \in 1..Len(new_list) : parent_'[new_list[i]] = s
                /\ \A c \in Operations :
                      (Contains(operations_[s], c) /\ ~Contains(new_list, c))
                          => parent_'[c] = Null
                /\ \A c \in Operations :
                      (Contains(operations_[s], c) /\ Contains(new_list, c))
                          => parent_'[c] = parent_[c]]_vars

\* a sequence that owned its children was given a list with one of them only: that
\* one has kept its parent, and the one dropped has lost it
C29_Witness ==
    /\ last_op.op = "setOperations"
    /\ last_op.owned
    /\ Len(last_op.operations) = 1
    /\ operations_[last_op.s] = last_op.operations
    /\ \E c \in last_op.kept : parent_[c] = last_op.s
    /\ \E c \in last_op.dropped : parent_[c] = Null

-----------------------------------------------------------------------------
(* Properties of the travel move insertion *)

\* the places of the FeatureExtrusions among the children
FeaturePlaces(operations) ==
    {i \in 1..Len(operations) : operations[i].kind = "FeatureExtrusion"}

\* places i < j of two FeatureExtrusions with no FeatureExtrusion between them
AdjacentFeatures(operations) ==
    {pair \in FeaturePlaces(operations) \X FeaturePlaces(operations) :
        /\ pair[1] < pair[2]
        /\ \A k \in FeaturePlaces(operations) : ~(pair[1] < k /\ k < pair[2])}

\* C8 as claimed: after the pass every adjacent pair of FeatureExtrusions a, b has
\* a.end() == b.start(), or a TravelRoute between them whose start position is a.end()
\* and whose end position is b.start().
C8_RouteJoinsEndToStart ==
    ppc = "processed" =>
        \A pair \in AdjacentFeatures(extruder_plan) :
            LET a == extruder_plan[pair[1]]
                b == extruder_plan[pair[2]]
            IN \/ findEndPosition(a) = findStartPosition(b)
               \/ \E k \in (pair[1] + 1)..(pair[2] - 1) :
                     /\ extruder_plan[k].kind = "TravelRoute"
                     /\ findStartPosition(extruder_plan[k]) = findEndPosition(a)
                     /\ findEndPosition(extruder_plan[k]) = findStartPosition(b)

\* C8 as amended: after the pass the FeatureExtrusions are those found, in their order,
\* and every adjacent pair a, b of them either has a.end() == b.start() and nothing
\* between, or has exactly one TravelRoute between them, of one TravelMove whose
\* position is b.start(): the route ends at b.start() and holds no position of a.
C8_RouteLeadsToStart ==
    ppc = "processed" =>
        /\ SelectSeq(extruder_plan, LAMBDA op : op.kind = "FeatureExtrusion") = original
        /\ \A pair \in AdjacentFeatures(extruder_plan) :
              LET a == extruder_plan[pair[1]]
                  b == extruder_plan[pair[2]]
              IN IF findEndPosition(a) = findStartPosition(b)
                 THEN pair[2] = pair[1] + 1
                 ELSE /\ pair[2] = pair[1] + 2
                      /\ extruder_plan[pair[1] + 1].kind = "TravelRoute"
                      /\ Len(extruder_plan[pair[1] + 1].moves) = 1
                      /\ extruder_plan[pair[1] + 1].moves[1].kind = "TravelMove"
                      /\ findEndPosition(extruder_plan[pair[1] + 1]) = findStartPosition(b)
                      /\ findStartPosition(extruder_plan[pair[1] + 1]) = findStartPosition(b)

\* the pass found three features, put a route between two of them and none between
\* the other two
C8_Witness ==
    /\ ppc = "processed"
    /\ Len(original) = 3
    /\ Len(extruder_plan) = 4
    /\ \E k \in 2..3 : extruder_plan[k].kind = "TravelRoute"

\* C9: generateTravelRoute(start, end, speed) returns a TravelRoute of feature type
\* MoveRetraction with the given speed and exactly one TravelMove, at end; every other
\* start gives the same route.
C9_DirectRoute ==
    route_call.call = "generateTravelRoute" =>
        /\ route_call.route.kind = "TravelRoute"
        /\ route_call.route.type = "MoveRetraction"
        /\ route_call.route.speed = route_call.speed
        /\ Len(route_call.route.moves) = 1
        /\ route_call.route.moves[1].kind = "TravelMove"
        /\ route_call.route.moves[1].position = route_call.end
        /\ \A start \in Points3 :
              generateTravelRoute(start, route_call.end, route_call.speed)
                  = route_call.route

\* a route was generated between two different positions, at the higher speed
C9_Witness ==
    /\ route_call.call = "generateTravelRoute"
    /\ route_call.start # route_call.end
    /\ route_call.speed = 2
    /\ route_call.route.moves # <<>>

-----------------------------------------------------------------------------
(* Properties of the emission *)

ExpectedCall(leaf) ==
    IF leaf.move.kind = "ExtrusionMove" THEN "writeExtrusion" ELSE "writeTravelMove"

\* the calls are a layer start, one call for each of the leaves, in their order and at
\* their absolute position, and a layer end of the same layer
CallsMatch(calls, leaves, plan) ==
    /\ Len(calls) = Len(leaves) + 2
    /\ calls[1].call = "writeLayerStart"
    /\ calls[1].layer_index = plan.layer_index
    /\ calls[Len(calls)].call = "writeLayerEnd"
    /\ calls[Len(calls)].layer_index = plan.layer_index
    /\ \A i \in 1..Len(leaves) :
          /\ calls[i + 1].call = ExpectedCall(leaves[i])
          /\ calls[i + 1].position = [x |-> leaves[i].move.position, z |-> plan.z]

\* C10 as claimed: writing a LayerPlan produces one layer start, then one extrusion or
\* travel call per leaf move in the in-order traversal of the tree, then one layer end,
\* and no move call before the layer start or after the layer end.
C10_OneCallPerLeaf ==
    xpc = "written" => CallsMatch(exported, LeavesOf(layer_plan), layer_plan)

\* a leaf that ExtrusionMove::write exports: not an ExtrusionMove outside a
\* FeatureExtrusion
Exportable(leaf) ==
    leaf.move.kind = "ExtrusionMove" => leaf.move_set.kind = "FeatureExtrusion"

\* C10 as amended: writing a LayerPlan produces one layer start, then one extrusion or
\* travel call per leaf move in the in-order traversal of the tree, except that an
\* ExtrusionMove whose move set is not a FeatureExtrusion produces no call, then one
\* layer end, and no move call before the layer start or after the layer end.
C10_OneCallPerExportableLeaf ==
    xpc = "written" =>
        CallsMatch(exported, SelectSeq(LeavesOf(layer_plan), Exportable), layer_plan)

\* a written plan of two ExtruderPlans with three leaves, one of them an ExtrusionMove
\* of a TravelRoute, which was skipped, the leaves after it being written
C10_Witness ==
    /\ xpc = "written"
    /\ Len(layer_plan.extruder_plans) = 2
    /\ layer_plan.extruder_plans[2] # <<>>
    /\ Len(LeavesOf(layer_plan)) = 3
    /\ ~Exportable(LeavesOf(layer_plan)[1])
    /\ Len(exported) = 4

\* the calls of the log made for a move at this position of the layer
MoveCallsAt(calls, position, plan) ==
    SelectSeq(calls, LAMBDA call :
        /\ call.call \in {"writeExtrusion", "writeTravelMove"}
        /\ call.position = [x |-> position, z |-> plan.z])

\* C12: writing an ExtrusionMove makes exactly one writeExtrusion call when its move set
\* is a FeatureExtrusion; when it is not, it makes no call, and the write goes on: every
\* leaf after it is written as it would be without it, up to the layer end.
C12_ExtrusionMoveWritesOnceOrSkips ==
    xpc = "written" =>
        LET leaves == LeavesOf(layer_plan)
            CallsOf(i) == MoveCallsAt(exported, leaves[i].move.position, layer_plan)
        IN \A i \in 1..Len(leaves) :
              leaves[i].move.kind = "ExtrusionMove" =>
                  IF leaves[i].move_set.kind = "FeatureExtrusion"
                  THEN /\ Len(CallsOf(i)) = 1
                       /\ CallsOf(i)[1].call = "writeExtrusion"
                  ELSE /\ CallsOf(i) = <<>>
                       /\ \A j \in (i + 1)..Len(leaves) :
                             Exportable(leaves[j]) => Len(CallsOf(j)) = 1
                       /\ Last(exported).call = "writeLayerEnd"

\* a written plan whose first leaf is an ExtrusionMove of a TravelRoute, followed by an
\* ExtrusionMove of a FeatureExtrusion in the next move set
C12_Witness ==
    /\ xpc = "written"
    /\ Len(LeavesOf(layer_plan)) >= 2
    /\ LeavesOf(layer_plan)[1].move.kind = "ExtrusionMove"
    /\ LeavesOf(layer_plan)[1].move_set.kind = "TravelRoute"
    /\ LeavesOf(layer_plan)[2].move.kind = "ExtrusionMove"
    /\ LeavesOf(layer_plan)[2].move_set.kind = "FeatureExtrusion"
    /\ Len(exported) = Len(LeavesOf(layer_plan)) + 1

-----------------------------------------------------------------------------
(* Properties of the layer plan buffer *)

\* the calls of the log made for a layer
CallsOfLayer(log, layer_index) ==
    SelectSeq(log, LAMBDA call : call.layer_index = layer_index)

\* C11: whatever the order in which the workers complete their LayerPlans, the exporter
\* calls are in ascending layer index, a call of layer j comes only after the calls of
\* every layer i < j up to its layer end, and at most one thread is inside the exporter.
C11_AscendingLayers ==
    /\ \A p \in 1..Len(export_log) : \A q \in p..Len(export_log) :
          export_log[p].layer_index <= export_log[q].layer_index
    /\ \A q \in 1..Len(export_log) : \A i \in 0..(export_log[q].layer_index - 1) :
          /\ CallsOfLayer(export_log, i) # <<>>
          /\ Last(CallsOfLayer(export_log, i)).call = "writeLayerEnd"
    /\ Cardinality(in_exporter) <= 1

\* layer 0 is written; the plan of layer 2 was completed before the one of layer 1 and
\* waits in the buffer while a worker still builds layer 1
C11_Witness ==
    /\ Len(export_log) >= 2
    /\ Last(export_log).call = "writeLayerEnd"
    /\ Last(export_log).layer_index = 0
    /\ next_layer = 1
    /\ 1 \in plans_building
    /\ \E plan \in plan_buffer : plan.layer_index = 2

-----------------------------------------------------------------------------
(* Properties of the back pressure compensation *)

\* C13: after applyBackPressureCompensation(r), for every r and all paths, every path
\* of the plan has speed_back_pressure_factor >= 0.001.
C13_FactorAtLeastEpsilon ==
    bpc = "compensated" =>
        \A i \in 1..Len(paths_) :
            ~FracLess(paths_[i].speed_back_pressure_factor, Frac(1, 1000))

\* a compensation with the largest ratio brought the factor of a wide path down to
\* 0.001
C13_Witness ==
    /\ bpc = "compensated"
    /\ last_ratio = Whole(2000)
    /\ \E i \in 1..Len(paths_) :
          /\ paths_[i].width_factor = Whole(2)
          /\ paths_[i].speed_back_pressure_factor = Frac(1, 1000)

\* max(0.001, 1 + (nominal_width / actual_width - 1) * r) of the claim, the actual
\* width being width_factor * nominal_width; there is no such number (NoRatio) when
\* the actual width is 0
ClaimedFactor(path, r) ==
    LET nominal_width == Whole(path.config.line_width)
        actual_width == FracMul(path.width_factor, nominal_width)
    IN IF actual_width = Whole(0) THEN NoRatio
       ELSE FracMax(Frac(1, 1000),
                    FracAdd(Whole(1),
                            FracMul(FracSub(FracDiv(nominal_width, actual_width), Whole(1)),
                                    r)))

\* C14 as claimed: applyBackPressureCompensation(r) sets the factor of every path that
\* is neither a travel path nor a bridge path to max(0.001, 1 + (nominal_width /
\* actual_width - 1) * r) and leaves the factor of the travel and bridge paths as it was.
C14_EveryExtrusionPathCompensated ==
    bpc = "compensated" =>
        \A i \in 1..Len(paths_) :
            IF paths_[i].config.kind \notin {"travel", "bridge"}
            THEN paths_[i].speed_back_pressure_factor = ClaimedFactor(paths_[i], last_ratio)
            ELSE paths_[i].speed_back_pressure_factor = factors_before[i]

\* C14 as amended: applyBackPressureCompensation(r) sets the factor to max(0.001,
\* 1 + (nominal_width / actual_width - 1) * r) on every path that is neither a travel
\* path nor a bridge path and has a width factor > 0 and a nominal width > 0, and
\* leaves the factor of every other path as it was.
C14_PositiveWidthPathCompensated ==
    bpc = "compensated" =>
        \A i \in 1..Len(paths_) :
            IF /\ paths_[i].config.kind \notin {"travel", "bridge"}
               /\ FracLess(Whole(0), paths_[i].width_factor)
               /\ paths_[i].config.line_width > 0
            THEN paths_[i].speed_back_pressure_factor = ClaimedFactor(paths_[i], last_ratio)
            ELSE paths_[i].speed_back_pressure_factor = factors_before[i]

\* a second compensation changed the factor of a thin extrusion path and left alone an
\* extrusion path without width, whose factor stayed 1
C14_Witness ==
    /\ bpc = "compensated"
    /\ Len(paths_) = 2
    /\ paths_[1].config.kind = "extrusion"
    /\ paths_[1].width_factor = Frac(1, 2)
    /\ paths_[1].speed_back_pressure_factor # factors_before[1]
    /\ factors_before[1] # Whole(1)
    /\ paths_[2].config.kind = "extrusion"
    /\ paths_[2].width_factor = Whole(0)
    /\ paths_[2].speed_back_pressure_factor = Whole(1)

\* C15: after applyBackPressureCompensation(0) every path it processes has the factor
\* 1, whatever its width factor, and its moves are written with the velocity
\* speed * speed_factor.
C15_ZeroRatioDisables ==
    (bpc = "compensated" /\ last_ratio = Whole(0)) =>
        \A i \in 1..Len(paths_) :
            ~skipsPath(paths_[i]) =>
                /\ paths_[i].speed_back_pressure_factor = Whole(1)
                /\ velocityOf(paths_[i])
                      = FracMul(Whole(paths_[i].config.speed), paths_[i].speed_factor)

\* a compensation with ratio 0 reset the factor of a thin path that an earlier
\* compensation had raised
C15_Witness ==
    /\ bpc = "compensated"
    /\ last_ratio = Whole(0)
    /\ \E i \in 1..Len(paths_) :
          /\ ~skipsPath(paths_[i])
          /\ paths_[i].width_factor = Frac(1, 2)
          /\ factors_before[i] = Whole(2)
          /\ paths_[i].speed_back_pressure_factor = Whole(1)

-----------------------------------------------------------------------------
(* Properties of the written line width *)

\* C16: the line width written for an extrusion move is round(flow * width_factor *
\* config.line_width * config.flow_ratio * move.line_width_ratio), rounded once; the
\* rounding inside FeatureExtrusion::getLineWidth never changes the result.
C16_LineWidthRoundedOnce ==
    lwpc = "written" =>
        line_width = llrint(FracMul(FracMul(FracMul(FracMul(written_feature.flow,
                                                            written_feature.width_factor),
                                                    Whole(written_feature.config.line_width)),
                                            written_feature.config.flow_ratio),
                                    line_width_ratio_))

-----------------------------------------------------------------------------
(* Properties of the MultiExporter *)

\* C17: every call on the MultiExporter (writeExtrusion, writeTravelMove,
\* writeLayerStart, writeLayerEnd) reaches each registered exporter exactly once, with
\* the same arguments, in registration order; a child that fails does not keep the
\* later children from getting the call.
C17_FanOutInRegistrationOrder ==
    last_call # NoCall =>
        /\ Len(last_fanout) = Len(registered_at_call)
        /\ \A i \in 1..Len(registered_at_call) :
              /\ last_fanout[i].exporter = registered_at_call[i]
              /\ last_fanout[i].call = last_call

\* a writeExtrusion on three registered exporters, the first of which failed
C17_Witness ==
    /\ Len(registered_at_call) = 3
    /\ last_call = [call |-> "writeExtrusion", position |-> 1]
    /\ Len(last_fanout) = 3
    /\ last_fanout[1].failed
    /\ ~last_fanout[3].failed
    /\ last_fanout[3].call = last_call

-----------------------------------------------------------------------------
(* Properties of the feature extrusion ordering pass *)

PlaceIn(sequence, feature) == CHOOSE i \in 1..Len(sequence) : sequence[i] = feature

\* a is to come before b by a chain of constraints of at most n links
RECURSIVE ChainedBefore(_, _, _, _)
ChainedBefore(order_constraints, a, b, n) ==
    /\ n > 0
    /\ \E c \in order_constraints :
          /\ c.feature_before = a
          /\ \/ c.feature_after = b
             \/ ChainedBefore(order_constraints, c.feature_after, b, n - 1)

ConstrainedBefore(a, b) == ChainedBefore(constraints, a, b, Len(feature_extrusions))
CycleMembers == {f \in FeaturesIn(feature_extrusions) : ConstrainedBefore(f, f)}

\* no feature lost, none duplicated
IsPermutation(after_pass, before_pass) ==
    /\ Len(after_pass) = Len(before_pass)
    /\ \A f \in FeaturesIn(before_pass) : \E i \in 1..Len(after_pass) : after_pass[i] = f
SatisfiesConstraints(after_pass) ==
    \A c \in constraints :
        PlaceIn(after_pass, c.feature_before) < PlaceIn(after_pass, c.feature_after)
CycleMembersKeepOrder ==
    \A a, b \in CycleMembers :
        PlaceIn(feature_extrusions, a) < PlaceIn(feature_extrusions, b)
            => PlaceIn(ordered_extrusions, a) < PlaceIn(ordered_extrusions, b)

\* C18 as claimed: the output of the ordering pass is a permutation of its input that
\* satisfies every constraint when the constraints are acyclic, and is stable: two
\* features the constraints do not order keep their input order; with a cycle the
\* cycle members keep their original order and no feature is lost or duplicated.
C18_UnorderedPairsKeepOrder ==
    opc = "ordered" =>
        /\ IsPermutation(ordered_extrusions, feature_extrusions)
        /\ IF CycleMembers = {}
           THEN /\ SatisfiesConstraints(ordered_extrusions)
                /\ \A a, b \in FeaturesIn(feature_extrusions) :
                      (/\ ~ConstrainedBefore(a, b)
                       /\ ~ConstrainedBefore(b, a)
                       /\ PlaceIn(feature_extrusions, a) < PlaceIn(feature_extrusions, b))
                          => PlaceIn(ordered_extrusions, a) < PlaceIn(ordered_extrusions, b)
           ELSE CycleMembersKeepOrder

\* C18 as amended: the output is a permutation of the input that satisfies every
\* constraint when the constraints are acyclic, and then a feature is moved behind a
\* feature that followed it in the input only when the constraints put it, directly or
\* by a chain, after a feature that stood behind it in the input; with a cycle the
\* cycle members keep their original order and no feature is lost or duplicated.
C18_MovedBackOnlyByConstraint ==
    opc = "ordered" =>
        /\ IsPermutation(ordered_extrusions, feature_extrusions)
        /\ IF CycleMembers = {}
           THEN /\ SatisfiesConstraints(ordered_extrusions)
                /\ \A a, b \in FeaturesIn(feature_extrusions) :
                      (/\ PlaceIn(feature_extrusions, a) < PlaceIn(feature_extrusions, b)
                       /\ PlaceIn(ordered_extrusions, b) < PlaceIn(ordered_extrusions, a))
                          => \E z \in FeaturesIn(feature_extrusions) :
                                /\ ConstrainedBefore(z, a)
                                /\ PlaceIn(feature_extrusions, a)
                                      < PlaceIn(feature_extrusions, z)
           ELSE CycleMembersKeepOrder

\* three features with the one constraint that the last comes before the first: the
\* pass moved the first behind the last, and with that behind the middle one, which no
\* constraint names
C18_Witness ==
    /\ opc = "ordered"
    /\ Len(feature_extrusions) = 3
    /\ constraints = {[feature_before |-> feature_extrusions[3],
                       feature_after |-> feature_extrusions[1]]}
    /\ ordered_extrusions = <<feature_extrusions[2], feature_extrusions[3],
                              feature_extrusions[1]>>

-----------------------------------------------------------------------------
(* Properties of findOperation *)

\* the operations within the depth of the search that the search function accepts:
\* the direct children are at depth 0
MatchesWithin(max_depth) ==
    {p \in DOMAIN search_tree :
        /\ search_tree[p].type = search_args.type
        /\ max_depth # Full => Len(p) - 1 <= ValueOf(max_depth)}

\* place i comes before place j in the search order
PlaceBefore(i, j) == IF search_args.order = "Forward" THEN i < j ELSE j < i

\* the search meets p before q: where their paths part, the one that ends there (a
\* direct child of the sequence searched at that point) goes before one that lies
\* deeper, and otherwise the one at the earlier place in the search order
MetBefore(p, q) ==
    \E k \in 1..Len(p) :
        /\ k <= Len(q)
        /\ SubSeq(p, 1, k - 1) = SubSeq(q, 1, k - 1)
        /\ \/ Len(p) = k /\ Len(q) > k
           \/ /\ p[k] # q[k]
              /\ (Len(p) = k) = (Len(q) = k)
              /\ PlaceBefore(p[k], q[k])

-----------------------------------------------------------------------------
(* Properties of findStartPosition and findEndPosition *)

\* the leaf moves below the sequence
LeafMoves == {p \in DOMAIN search_tree : search_tree[p].type \notin SequenceTypes}

\* leaf p is written before leaf q by the in-order traversal: where their paths part,
\* p goes through the earlier child
TraversedBefore(p, q) ==
    \E k \in 1..Len(p) :
        /\ k <= Len(q)
        /\ SubSeq(p, 1, k - 1) = SubSeq(q, 1, k - 1)
        /\ p[k] < q[k]

\* C20: findStartPosition() returns the position of the first leaf move of the in-order
\* traversal of the subtree, sequences without leaves before it being passed over, and
\* findEndPosition() that of the last; each returns None exactly when the subtree has
\* no leaf.
C20_PositionsOfFirstAndLastLeaf ==
    fpc = "positioned" =>
        /\ (found_positions.start = nullopt) = (LeafMoves = {})
        /\ (found_positions.end = nullopt) = (LeafMoves = {})
        /\ \A p \in LeafMoves :
              /\ (\A q \in LeafMoves \ {p} : TraversedBefore(p, q))
                    => found_positions.start = search_tree[p].position
              /\ (\A q \in LeafMoves \ {p} : TraversedBefore(q, p))
                    => found_positions.end = search_tree[p].position

\* the sequence begins with a sequence that holds only an empty sequence; the start
\* position is that of the move after it, the end position that of another move
C20_Witness ==
    /\ fpc = "positioned"
    /\ DOMAIN search_tree = {<<1>>, <<1, 1>>, <<2>>, <<3>>}
    /\ search_tree[<<1>>].type \in SequenceTypes
    /\ search_tree[<<1, 1>>].type \in SequenceTypes
    /\ search_tree[<<2>>].position = Some(1)
    /\ search_tree[<<3>>].position = Some(0)
    /\ found_positions.start = Some(1)
    /\ found_positions.end = Some(0)

-----------------------------------------------------------------------------
(* Properties of applyProcessorToOperationsRecursively *)

\* the operations below the receiver
ProcessDescendants ==
    {c \in ProcessOperations :
        \/ Contains(node_operations[Receiver], c)
        \/ \E s \in InnerSequences :
              Contains(node_operations[Receiver], s) /\ Contains(node_operations[s], c)}

\* every call of process for a comes before every call for b
ProcessedBefore(a, b) ==
    \A i, j \in 1..Len(process_calls) : (process_calls[i] = a /\ process_calls[j] = b) => i < j

\* C21: applyProcessorToOperationsRecursively<T> calls process exactly once on every
\* descendant of the receiver that is of type T and never on the receiver; siblings are
\* process_calls in insertion order, and a T-typed descendant of a T-typed node is process_calls
\* before that node.
C21_EachDescendantProcessedOnce ==
    apc = "processed" =>
        /\ \A c \in ProcessOperations :
              Count(process_calls, c)
                  = IF c \in ProcessDescendants /\ IsOfType(c, child_type) THEN 1 ELSE 0
        /\ ~Contains(process_calls, Receiver)
        /\ \A s \in ProcessSequences : \A i, j \in 1..Len(node_operations[s]) :
              (/\ i < j
               /\ node_operations[s][i] # node_operations[s][j]
               /\ Contains(process_calls, node_operations[s][i])
               /\ Contains(process_calls, node_operations[s][j]))
                  => ProcessedBefore(node_operations[s][i], node_operations[s][j])
        /\ \A n \in InnerSequences : \A d \in ProcessOperations :
              (/\ Contains(process_calls, n)
               /\ Contains(process_calls, d)
               /\ Contains(node_operations[n], d))
                  => ProcessedBefore(d, n)

-----------------------------------------------------------------------------
(* Properties of the smoothing action *)

\* the cosine of the angle between AB and BD, 0 when one of them has no length
CosABD(w) ==
    IF w.A = w.B \/ w.B = w.D THEN Whole(0)
    ELSE Frac((w.B - w.A) * (w.D - w.B), Magnitude(w.A, w.B) * Magnitude(w.B, w.D))

\* |acos(cos ABC) - acos(cos ABD)| of a window
AngularDeviation(w) ==
    Abs(acos(cosAngle(w.A, w.B, w.C, Magnitude(w.A, w.B), Magnitude(w.B, w.C)))
            - acos(CosABD(w)))

WindowModifies(w) == w.shift_B \/ w.mark_B \/ w.shift_C \/ w.mark_C

\* C22: a window (A, B, C, D) shifts or marks B or C only when |BC| <= max_resolution
\* and the angular deviation |acos(cos ABC) - acos(cos ABD)| is less than fluid_angle;
\* a window with |BC| > max_resolution or a deviation >= fluid_angle leaves B and C
\* unshifted and unmarked.
C22_ModifiesOnlyWithinFluidAngle ==
    mpc = "returned" =>
        \A k \in 1..Len(windows_log) :
            WindowModifies(windows_log[k])
                => /\ Magnitude(windows_log[k].B, windows_log[k].C) <= max_resolution
                   /\ AngularDeviation(windows_log[k]) < fluid_angle

\* the points the windows marked for removal
MarkedPoints ==
    {windows_log[k].iB : k \in {q \in 1..Len(windows_log) : windows_log[q].mark_B}}
        \cup {windows_log[k].iC : k \in {q \in 1..Len(windows_log) : windows_log[q].mark_C}}

\* C23: smooth returns a path with at most as many points as its input, a path with
\* fewer than 4 points with its points unchanged; it never adds a point.
C23_NeverMorePoints ==
    mpc = "returned" =>
        /\ Len(smoothed) <= Len(rng)
        /\ Len(rng) < 4 => smoothed = rng

\* a path of four points came back with a point shifted and, a point having been
\* marked, with its four points
C23_Witness ==
    /\ mpc = "returned"
    /\ Len(rng) = 4
    /\ MarkedPoints # {}
    /\ smoothed # rng
    /\ Len(smoothed) = 4

\* C24: for a closed path of n >= 4 points a point is marked for removal only while
\* more than 3 unmarked points remain, so at least 3 points stay in the output, and a
\* point shifted in a window is not also marked for removal in that window.
C24_RemovalGuardKeepsMinimumPath ==
    (mpc = "returned" /\ Len(rng) >= 4) =>
        /\ \A k \in 1..Len(windows_log) :
              /\ windows_log[k].mark_B => windows_log[k].unmarked_B > 3
              /\ windows_log[k].mark_C => windows_log[k].unmarked_C > 3
              /\ ~(windows_log[k].shift_B /\ windows_log[k].mark_B)
              /\ ~(windows_log[k].shift_C /\ windows_log[k].mark_C)
              /\ windows_log[k].iB # windows_log[k].iC
        /\ Len(rng) - Cardinality(MarkedPoints) >= 3
        /\ Len(smoothed) >= 3

\* one window marked a point while four were unmarked, and a later window, with three
\* left, neither shifted nor marked its B
C24_Witness ==
    /\ mpc = "returned"
    /\ Len(rng) = 4
    /\ \E k \in 1..Len(windows_log) : \E later \in (k + 1)..Len(windows_log) :
          /\ windows_log[k].mark_B
          /\ windows_log[k].unmarked_B = 4
          /\ windows_log[later].shift_C
          /\ ~windows_log[later].shift_B
          /\ ~windows_log[later].mark_B
          /\ windows_log[later].unmarked_B = 3

-----------------------------------------------------------------------------
(* Properties of the inserts of an ExtruderPlan *)

\* the front insert is one handleInserts(path_idx, time) stops at
StopsAt(insert, path_idx, time) ==
    insert.path_idx > path_idx \/ insert.time_after_path_start >= time

\* C30: over any calls of insertCommand, handleInserts and handleAllRemainingInserts
\* on an ExtruderPlan every insert is written to the gcode at most once and the inserts
\* are written in the order of their insertion (the inserts written, followed by the
\* inserts queued, are the inserts made, in order); handleInserts(path_idx, t) writes
\* from the front of the queue only and stops at the first front insert with a path_idx
\* greater than the given one or with time_after_path_start >= t, which stays queued
\* with everything behind it; after handleAllRemainingInserts the queue is empty.
C30_InsertsWrittenOnceInOrder ==
    [][/\ Len(gcode_inserts' \o inserts_') = inserted'
       /\ \A i \in 1..inserted' : (gcode_inserts' \o inserts_')[i].nr = i
       /\ insert_call'.call = "handleInserts" =>
             \E k \in 0..Len(inserts_) :
                /\ gcode_inserts' = gcode_inserts \o SubSeq(inserts_, 1, k)
                /\ inserts_' = SubSeq(inserts_, k + 1, Len(inserts_))
                /\ \A i \in 1..k : ~StopsAt(inserts_[i], insert_call'.path_idx,
                                            insert_call'.cumulative_path_time)
                /\ k < Len(inserts_) =>
                      StopsAt(inserts_[k + 1], insert_call'.path_idx,
                              insert_call'.cumulative_path_time)
       /\ insert_call'.call = "handleAllRemainingInserts" =>
             /\ inserts_' = <<>>
             /\ gcode_inserts' = gcode_inserts \o inserts_]_vars

\* handleInserts(1, 1) has written the two inserts at the front and stopped at the
\* third, made for path 1 too, because of its time
C30_Witness ==
    /\ insert_call = [call |-> "handleInserts", path_idx |-> 1, cumulative_path_time |-> 1]
    /\ Len(gcode_inserts) = 2
    /\ gcode_inserts[1].path_idx = 0
    /\ gcode_inserts[2].path_idx = 1
    /\ Len(inserts_) = 1
    /\ inserts_[1].path_idx = 1
    /\ inserts_[1].time_after_path_start = 1

-----------------------------------------------------------------------------
(* Specifications *)

InitStitch == StitchCalled /\ WallIdle /\ TreeIdle /\ TravelIdle /\ RouteIdle /\ WriteIdle /\ BufferIdle /\ PressureIdle /\ WidthIdle /\ MultiIdle /\ OrderIdle /\ SearchIdle /\ ProcessIdle /\ SmoothIdle /\ InsertsIdle
NextStitch == OuterStep \/ ChainStep \/ StitchReturn
SpecStitch == InitStitch /\ [][NextStitch]_vars

InitWall == StitchIdle /\ WallConstructed /\ TreeIdle /\ TravelIdle /\ RouteIdle /\ WriteIdle /\ BufferIdle /\ PressureIdle /\ WidthIdle /\ MultiIdle /\ OrderIdle /\ SearchIdle /\ ProcessIdle /\ SmoothIdle /\ InsertsIdle
NextWall == Generate \/ GetToolPaths \/ GetInnerContour
SpecWall == InitWall /\ [][NextWall]_vars

InitTree == StitchIdle /\ WallIdle /\ TreeConstructed /\ TravelIdle /\ RouteIdle /\ WriteIdle /\ BufferIdle /\ PressureIdle /\ WidthIdle /\ MultiIdle /\ OrderIdle /\ SearchIdle /\ ProcessIdle /\ SmoothIdle /\ InsertsIdle
NextTree == AppendFeatureExtrusion \/ RemoveOperation \/ SetOperations
SpecTree == InitTree /\ [][NextTree]_vars

InitTravel == StitchIdle /\ WallIdle /\ TreeIdle /\ ExtruderPlanConstructed /\ RouteIdle /\ WriteIdle /\ BufferIdle /\ PressureIdle /\ WidthIdle /\ MultiIdle /\ OrderIdle /\ SearchIdle /\ ProcessIdle /\ SmoothIdle /\ InsertsIdle
NextTravel == PlanFeatureExtrusion \/ ApplyProcessors
SpecTravel == InitTravel /\ [][NextTravel]_vars

InitRoute == StitchIdle /\ WallIdle /\ TreeIdle /\ TravelIdle /\ GeneratorConstructed /\ WriteIdle /\ BufferIdle /\ PressureIdle /\ WidthIdle /\ MultiIdle /\ OrderIdle /\ SearchIdle /\ ProcessIdle /\ SmoothIdle /\ InsertsIdle
NextRoute == GenerateTravelRoute
SpecRoute == InitRoute /\ [][NextRoute]_vars

InitWrite == StitchIdle /\ WallIdle /\ TreeIdle /\ TravelIdle /\ RouteIdle /\ LayerPlanConstructed /\ BufferIdle /\ PressureIdle /\ WidthIdle /\ MultiIdle /\ OrderIdle /\ SearchIdle /\ ProcessIdle /\ SmoothIdle /\ InsertsIdle
NextWrite == AppendExtruderPlan \/ AppendMoveSet \/ WriteLayerPlan
SpecWrite == InitWrite /\ [][NextWrite]_vars

InitBuffer == StitchIdle /\ WallIdle /\ TreeIdle /\ TravelIdle /\ RouteIdle /\ WriteIdle /\ BufferConstructed /\ PressureIdle /\ WidthIdle /\ MultiIdle /\ OrderIdle /\ SearchIdle /\ ProcessIdle /\ SmoothIdle /\ InsertsIdle
NextBuffer == StartBuild \/ FinishBuild \/ HandOver \/ ExportCallBegin \/ ExportCallEnd
SpecBuffer == InitBuffer /\ [][NextBuffer]_vars

InitPressure == StitchIdle /\ WallIdle /\ TreeIdle /\ TravelIdle /\ RouteIdle /\ WriteIdle /\ BufferIdle /\ PressurePlanConstructed /\ WidthIdle /\ MultiIdle /\ OrderIdle /\ SearchIdle /\ ProcessIdle /\ SmoothIdle /\ InsertsIdle
NextPressure == AddPath \/ ApplyBackPressureCompensation
SpecPressure == InitPressure /\ [][NextPressure]_vars

InitWidth == StitchIdle /\ WallIdle /\ TreeIdle /\ TravelIdle /\ RouteIdle /\ WriteIdle /\ BufferIdle /\ PressureIdle /\ ExtrusionMovePlanned /\ MultiIdle /\ OrderIdle /\ SearchIdle /\ ProcessIdle /\ SmoothIdle /\ InsertsIdle
NextWidth == WriteLineWidth
SpecWidth == InitWidth /\ [][NextWidth]_vars

InitMulti == StitchIdle /\ WallIdle /\ TreeIdle /\ TravelIdle /\ RouteIdle /\ WriteIdle /\ BufferIdle /\ PressureIdle /\ WidthIdle /\ MultiExporterConstructed /\ OrderIdle /\ SearchIdle /\ ProcessIdle /\ SmoothIdle /\ InsertsIdle
NextMulti == AppendExporter \/ WriteOnMultiExporter
SpecMulti == InitMulti /\ [][NextMulti]_vars

InitOrder == StitchIdle /\ WallIdle /\ TreeIdle /\ TravelIdle /\ RouteIdle /\ WriteIdle /\ BufferIdle /\ PressureIdle /\ WidthIdle /\ MultiIdle /\ FeatureExtrusionsPlanned /\ SearchIdle /\ ProcessIdle /\ SmoothIdle /\ InsertsIdle
NextOrder == AppendConstraints \/ OrderFeatureExtrusions
SpecOrder == InitOrder /\ [][NextOrder]_vars

InitSearch == StitchIdle /\ WallIdle /\ TreeIdle /\ TravelIdle /\ RouteIdle /\ WriteIdle /\ BufferIdle /\ PressureIdle /\ WidthIdle /\ MultiIdle /\ OrderIdle /\ SearchSequenceConstructed /\ ProcessIdle /\ SmoothIdle /\ InsertsIdle
NextSearch == AppendSearchOperation \/ FindOperationByType
SpecSearch == InitSearch /\ [][NextSearch]_vars

InitPositions == InitSearch
NextPositions == AppendSearchOperation \/ FindPositions
SpecPositions == InitPositions /\ [][NextPositions]_vars

InitProcess == StitchIdle /\ WallIdle /\ TreeIdle /\ TravelIdle /\ RouteIdle /\ WriteIdle /\ BufferIdle /\ PressureIdle /\ WidthIdle /\ MultiIdle /\ OrderIdle /\ SearchIdle /\ ProcessTreeConstructed /\ SmoothIdle /\ InsertsIdle
NextProcess == AppendToProcessTree \/ SetOperationsOfProcessTree \/ ApplyProcessorToOperationsRecursively
SpecProcess == InitProcess /\ [][NextProcess]_vars

InitSmooth == StitchIdle /\ WallIdle /\ TreeIdle /\ TravelIdle /\ RouteIdle /\ WriteIdle /\ BufferIdle /\ PressureIdle /\ WidthIdle /\ MultiIdle /\ OrderIdle /\ SearchIdle /\ ProcessIdle /\ SmoothCalled /\ InsertsIdle
NextSmooth == Smooth
SpecSmooth == InitSmooth /\ [][NextSmooth]_vars

InitInserts == StitchIdle /\ WallIdle /\ TreeIdle /\ TravelIdle /\ RouteIdle /\ WriteIdle /\ BufferIdle /\ PressureIdle /\ WidthIdle /\ MultiIdle /\ OrderIdle /\ SearchIdle /\ ProcessIdle /\ SmoothIdle /\ InsertsPlanConstructed
NextInserts == InsertCommand \/ HandleInserts \/ HandleAllRemainingInserts
SpecInserts == InitInserts /\ [][NextInserts]_vars

=============================================================================
